---------------------------- MODULE Spec2Model ----------------------------
(***************************************************************************)
(* Shaft designer: the geometry model (Shaft.add_node, reset), the load    *)
(* lists, and the statics solver (calculate_reactions, calculate_diagrams, *)
(* macaulay).                                                              *)
(*                                                                         *)
(* Numbers.  The program computes in floating point.  Here a position is   *)
(* an integer count of length units, `grid' units to the millimetre, and   *)
(* every computed quantity is an exact rational <<num, den>> in lowest     *)
(* terms (den > 0).  A square root is taken exactly when one of the two    *)
(* components is zero and is kept as the pair of component magnitudes      *)
(* otherwise.                                                              *)
(***************************************************************************)
EXTENDS Integers, Sequences, FiniteSets, TLC

VARIABLES
    nodes,      \* Shaft.nodes: sequence of ShaftNode records
    forces,     \* Shaft.forces: sequence of RadialForce records
    torques,    \* Shaft.torques: sequence of Torque records
    grid,       \* length units per millimetre (fixed during a run)
    call,       \* the last call made on the shaft, with its arguments
    ret,        \* what that call returned
    session,    \* st.session_state: start_diameter, features, bearing positions
    opt         \* optimize_shaft's position in its loop and its locals

vars == <<nodes, forces, torques, grid, call, ret, session, opt>>

(***************************************************************************)
(* Bounds of the model.                                                    *)
(***************************************************************************)
MaxPos == 4         \* add_node positions 0..MaxPos in the fine-grid runs
MaxForces == 2      \* length of Shaft.forces
MaxTorques == 1     \* length of Shaft.torques
MaxPoints == 3      \* num_points of calculate_diagrams is 0..MaxPoints

(***************************************************************************)
(* Program constants, and the grid of the fine-grid runs.                  *)
(***************************************************************************)
TolInv == 100000            \* the tolerance 1e-5 mm is 1/TolInv mm
DefaultDiameter == 20       \* 20.0 mm
DefaultNumPoints == 200     \* calculate_diagrams(shaft, num_points=200)
\* a grid of 1/150000 mm, two thirds of the tolerance: positions one step
\* apart are within the tolerance and positions two steps apart are not.  No
\* two positions are exactly 1e-5 mm apart, where the result of the float
\* subtraction abs(n.position - position) depends on its rounding.
FineGrid == (3 * TolInv) \div 2

(***************************************************************************)
(* Optional values: None is the empty tuple, a given value v is <<v>>.     *)
(***************************************************************************)
None == << >>
Some(v) == <<v>>
IsNone(o) == o = << >>
Val(o) == o[1]

Abs(a) == IF a < 0 THEN -a ELSE a

(***************************************************************************)
(* Elements attached to a node.  kind is the class of the object; name is  *)
(* MachineElement.name.  NoElement is Python's None.                       *)
(***************************************************************************)
NoElement == [kind |-> "None", name |-> "None"]
Bearing(name) == [kind |-> "Bearing", name |-> name]
MachineElement(name) == [kind |-> "MachineElement", name |-> name]

ShaftNode(position, diameter_left, diameter_right, element) ==
    [position |-> position, diameter_left |-> diameter_left,
     diameter_right |-> diameter_right, element |-> element]

\* abs(n.position - position) < 1e-5, positions in units of 1/grid mm
Near(a, b) == Abs(a - b) * TolInv < grid

\* list.sort(key=position): a stable insertion sort
RECURSIVE InsertSorted(_, _)
InsertSorted(sorted, n) ==
    IF sorted = << >> THEN <<n>>
    ELSE IF sorted[Len(sorted)].position <= n.position
         THEN Append(sorted, n)
         ELSE Append(InsertSorted(SubSeq(sorted, 1, Len(sorted) - 1), n),
                     sorted[Len(sorted)])

\* a sort that leaves the appended node at the end
SortByPositionOmitted(ns) == ns

RECURSIVE SortByPosition(_)
SortByPosition(ns) ==
    IF ns = << >> THEN << >>
    ELSE InsertSorted(SortByPosition(SubSeq(ns, 1, Len(ns) - 1)), ns[Len(ns)])

\* next((n for n in self.nodes if abs(n.position - position) < 1e-5), None):
\* the index of the first node within the tolerance, 0 for None
ExistingIndex(ns, position) ==
    IF \E i \in 1..Len(ns) : Near(ns[i].position, position)
    THEN CHOOSE i \in 1..Len(ns) :
            /\ Near(ns[i].position, position)
            /\ \A j \in 1..(i - 1) : ~Near(ns[j].position, position)
    ELSE 0

\* an update that stores the element argument even when it is None
UpdateNodeAlwaysElement(n, diameter_left, diameter_right, element) ==
    [position |-> n.position,
     diameter_left |-> IF IsNone(diameter_left) THEN n.diameter_left
                       ELSE Val(diameter_left),
     diameter_right |-> IF IsNone(diameter_right) THEN n.diameter_right
                        ELSE Val(diameter_right),
     element |-> element]

\* the update of the existing node: only the fields that were passed
UpdateNode(n, diameter_left, diameter_right, element) ==
    [position |-> n.position,
     diameter_left |-> IF IsNone(diameter_left) THEN n.diameter_left
                       ELSE Val(diameter_left),
     diameter_right |-> IF IsNone(diameter_right) THEN n.diameter_right
                        ELSE Val(diameter_right),
     element |-> IF element = NoElement THEN n.element ELSE element]

\* the default of a diameter that was not passed: 20.0 in both branches
InferDefault(ns, d) == IF IsNone(d) THEN DefaultDiameter ELSE Val(d)

\* Shaft.add_node: the node list after the call
add_node(ns, position, diameter_left, diameter_right, element) ==
    LET i == ExistingIndex(ns, position) IN
    IF i # 0
    THEN [ns EXCEPT ![i] = UpdateNode(ns[i], diameter_left, diameter_right, element)]
    ELSE SortByPosition(Append(ns,
            ShaftNode(position, InferDefault(ns, diameter_left),
                      InferDefault(ns, diameter_right), element)))

\* Shaft.get_total_length
get_total_length(ns) ==
    IF ns = << >> THEN 0 ELSE ns[Len(ns)].position - ns[1].position

(***************************************************************************)
(* Exact rationals <<num, den>>, den > 0, in lowest terms.                 *)
(***************************************************************************)
RECURSIVE GCD(_, _)
GCD(a, b) == IF b = 0 THEN a ELSE GCD(b, a % b)

Rat(n, d) ==
    LET s == IF d < 0 THEN -1 ELSE 1
        g == GCD(Abs(n), Abs(d))
    IN  <<(s * n) \div g, (s * d) \div g>>

ToRat(n) == <<n, 1>>
Zero == <<0, 1>>
One == <<1, 1>>
RatNeg(a) == <<-a[1], a[2]>>
RatAbs(a) == <<Abs(a[1]), a[2]>>
RatAdd(a, b) ==
    LET g == GCD(a[2], b[2])
        l == (a[2] \div g) * b[2]
    IN  Rat(a[1] * (l \div a[2]) + b[1] * (l \div b[2]), l)
RatSub(a, b) == RatAdd(a, RatNeg(b))
RatMul(a, b) ==
    LET g1 == GCD(Abs(a[1]), b[2])
        g2 == GCD(Abs(b[1]), a[2])
    IN  Rat((a[1] \div g1) * (b[1] \div g2), (a[2] \div g2) * (b[2] \div g1))
RatDiv(a, b) == RatMul(a, IF b[1] < 0 THEN <<-b[2], -b[1]>> ELSE <<b[2], b[1]>>)
RatLeq(a, b) == RatSub(a, b)[1] <= 0
RatLess(a, b) == RatSub(a, b)[1] < 0

RECURSIVE RatPow(_, _)
RatPow(a, n) == IF n = 0 THEN One ELSE RatMul(a, RatPow(a, n - 1))

\* np.sqrt(a**2 + b**2): exact when a component is zero, else the pair
Hypot(a, b) ==
    IF b = Zero THEN RatAbs(a)
    ELSE IF a = Zero THEN RatAbs(b)
    ELSE <<"sqrt_of_squares", RatAbs(a), RatAbs(b)>>

(***************************************************************************)
(* Loads (src/models/loads.py).  Angles are multiples of 90 degrees, where *)
(* cos and sin are -1, 0 or 1 (the floating-point values differ from these *)
(* by less than 2e-16).                                                    *)
(***************************************************************************)
RadialForce(magnitude, angle, position) ==
    [magnitude |-> magnitude, angle |-> angle, position |-> position]
Torque(magnitude, position) == [magnitude |-> magnitude, position |-> position]

CosDeg(angle) ==
    CASE angle = 0 -> 1 [] angle = 90 -> 0 [] angle = 180 -> -1 [] angle = 270 -> 0
SinDeg(angle) ==
    CASE angle = 0 -> 0 [] angle = 90 -> 1 [] angle = 180 -> 0 [] angle = 270 -> -1

\* RadialForce.fy, RadialForce.fz
fy(f) == f.magnitude * CosDeg(f.angle)
fz(f) == f.magnitude * SinDeg(f.angle)

(***************************************************************************)
(* A Python dict built from a literal: its keys in order, a later entry    *)
(* with an equal key replacing the earlier one.                            *)
(***************************************************************************)
DictOf(items) ==
    [k \in {items[i][1] : i \in 1..Len(items)} |->
        LET last == CHOOSE i \in 1..Len(items) :
                        /\ items[i][1] = k
                        /\ \A j \in (i + 1)..Len(items) : items[j][1] # k
        IN  items[last][2]]
EmptyDict == DictOf(<< >>)

RECURSIVE SumInts(_)
SumInts(s) == IF s = << >> THEN 0 ELSE s[1] + SumInts(Tail(s))

\* the nodes whose element is a Bearing, in node order
RECURSIVE BearingNodes(_)
BearingNodes(ns) ==
    IF ns = << >> THEN << >>
    ELSE IF ns[1].element.kind = "Bearing"
         THEN <<ns[1]>> \o BearingNodes(Tail(ns))
         ELSE BearingNodes(Tail(ns))

\* a guard that lets three or more bearings through
FewerThanTwo(bearings) == Len(bearings) < 2

\* len(bearings) != 2
NotExactlyTwo(bearings) == Len(bearings) # 2

\* a moment balance with the sign of the reaction lost
ReactionBSignLost(sum_moment_A, L_span) == Rat(sum_moment_A, L_span)

\* R_B = - sum(F_i * (x_i - pos_A)) / L_span
ReactionB(sum_moment_A, L_span) == RatNeg(Rat(sum_moment_A, L_span))
\* R_A = - R_B - sum(F_i)
ReactionA(Rb, sum_force) == RatSub(RatNeg(Rb), ToRat(sum_force))

\* calculate_reactions(shaft): the returned dict
calculate_reactions(ns, fs) ==
    LET bearings == BearingNodes(ns) IN
    IF NotExactlyTwo(bearings) THEN EmptyDict
    ELSE
    LET node_A == bearings[1]
        node_B == bearings[2]
        pos_A == node_A.position
        pos_B == node_B.position
        L_span == pos_B - pos_A
    IN
    IF L_span = 0
    THEN DictOf(<< <<node_A.element.name, <<Zero, Zero>> >>,
                   <<node_B.element.name, <<Zero, Zero>> >> >>)
    ELSE
    LET sum_moment_A_planeXY ==
            SumInts([i \in 1..Len(fs) |-> fy(fs[i]) * (fs[i].position - pos_A)])
        sum_force_Y == SumInts([i \in 1..Len(fs) |-> fy(fs[i])])
        Rby == ReactionB(sum_moment_A_planeXY, L_span)
        Ray == ReactionA(Rby, sum_force_Y)
        sum_moment_A_planeXZ ==
            SumInts([i \in 1..Len(fs) |-> fz(fs[i]) * (fs[i].position - pos_A)])
        sum_force_Z == SumInts([i \in 1..Len(fs) |-> fz(fs[i])])
        Rbz == ReactionB(sum_moment_A_planeXZ, L_span)
        Raz == ReactionA(Rbz, sum_force_Z)
    IN  DictOf(<< <<node_A.element.name, <<Ray, Raz>> >>,
                  <<node_B.element.name, <<Rby, Rbz>> >>,
                  <<"A_pos", pos_A>>,
                  <<"B_pos", pos_B>> >>)

(***************************************************************************)
(* src/analysis/utils.py and calculate_diagrams.  An array is a sequence.  *)
(***************************************************************************)
\* a bracket whose mask leaves out the sample at the singularity (val > 0)
MacaulayAtStrict(xi, a, n) ==
    LET val == RatSub(xi, ToRat(a)) IN
    IF ~(val[1] > 0) THEN Zero
    ELSE IF n = 0 THEN One
    ELSE IF n = 1 THEN val
    ELSE IF n >= 2 THEN RatPow(val, n)
    ELSE Zero

\* A sample is the rational <<num, den>> that the double stands for.  A
\* double that is the neighbour of an integer position instead of the
\* position itself is <<num, 1, -1>> when just below it and <<num, 1, 1>>
\* when just above it.
Side(xi) == IF Len(xi) = 3 THEN xi[3] ELSE 0

\* x >= p and x <= p in doubles, for a sample x and a whole position p
SampleGeq(xi, p) ==
    LET val == RatSub(xi, ToRat(p)) IN val[1] > 0 \/ (val[1] = 0 /\ Side(xi) >= 0)
SampleLeq(xi, p) ==
    LET val == RatSub(xi, ToRat(p)) IN val[1] < 0 \/ (val[1] = 0 /\ Side(xi) <= 0)

\* one sample of macaulay(x, a, n): the bracket <x - a>^n, mask = val >= 0
MacaulayAt(xi, a, n) ==
    LET val == RatSub(xi, ToRat(a)) IN
    IF ~(val[1] > 0 \/ (val[1] = 0 /\ Side(xi) >= 0)) THEN Zero
    ELSE IF n = 0 THEN One
    ELSE IF n = 1 THEN val
    ELSE IF n >= 2 THEN RatPow(val, n)
    ELSE Zero

macaulay(x, a, n) == [i \in 1..Len(x) |-> MacaulayAt(x[i], a, n)]

\* the j with 2^j <= num/den < 2^(j+1)
RECURSIVE FloorLog2(_, _)
FloorLog2(num, den) ==
    IF num < den THEN FloorLog2(2 * num, den) - 1
    ELSE IF 2 * den <= num THEN FloorLog2(num, 2 * den) + 1
    ELSE 0

\* 2^k mod d, by squaring
SquareMod(h, d) == (h * h) % d
RECURSIVE Pow2Mod(_, _)
Pow2Mod(k, d) ==
    IF k = 0 THEN 1 % d
    ELSE IF k % 2 = 0 THEN SquareMod(Pow2Mod(k \div 2, d), d)
    ELSE (2 * Pow2Mod(k - 1, d)) % d

\* The double i * step of np.linspace, step = L / div in doubles, against
\* the integer p = i*L/div it stands for: -1 when it is below p, 1 when it
\* is above, 0 when it is p.  With step = m / 2^k, m of 53 bits (a double's
\* significand, 2^52 <= m < 2^53), r is the
\* remainder that rounding L*2^k/div to m drops (2r < div) or fills
\* (2r > div), t = i*m - p*2^k is the error of the exact product, and the
\* product rounds back to p when t is at most half a unit of p's last place.
Rounding(L, div, i) ==
    IF i = 0 \/ (i * L) % div # 0 THEN 0
    ELSE LET p == (i * L) \div div
             k == 52 - FloorLog2(L, div)
             r == ((L % div) * Pow2Mod(k, div)) % div
             ulp == 2^(FloorLog2(p, 1) - FloorLog2(L, div))
             binade_start == 2^FloorLog2(p, 1) = p
         IN  IF r = 0 THEN 0
             ELSE IF 2 * r < div
             THEN IF (IF binade_start THEN 4 ELSE 2) * ((i * r) \div div) > ulp
                  THEN -1 ELSE 0
             ELSE IF 2 * ((i * (div - r)) \div div) > ulp THEN 1 ELSE 0

\* np.linspace(0, L, num_points), num_points >= 0: arange(0, num) * step,
\* and y[-1] = stop
linspace(L, num_points) ==
    [i \in 1..num_points |->
        IF num_points = 1 THEN Zero
        ELSE IF i = num_points THEN ToRat(L)
        ELSE IF Rounding(L, num_points - 1, i - 1) = 0
        THEN Rat((i - 1) * L, num_points - 1)
        ELSE <<((i - 1) * L) \div (num_points - 1), 1,
               Rounding(L, num_points - 1, i - 1)>>]

\* np.zeros_like(x)
zeros_like(x) == [i \in 1..Len(x) |-> Zero]

RECURSIVE SumRats(_)
SumRats(s) == IF s = << >> THEN Zero ELSE RatAdd(s[1], SumRats(Tail(s)))

\* R_A * <x - pos_A>^n + R_B * <x - pos_B>^n + sum of load * <x - position>^n
\* at one sample; comp is the load's component in the plane
Superpose(xi, Ra, pos_A, Rb, pos_B, comp, fs, n) ==
    RatAdd(RatAdd(RatMul(Ra, MacaulayAt(xi, pos_A, n)),
                  RatMul(Rb, MacaulayAt(xi, pos_B, n))),
           SumRats([k \in 1..Len(fs) |->
                RatMul(ToRat(comp[k]), MacaulayAt(xi, fs[k].position, n))]))

\* Tx at one sample: sum of t.magnitude * <x - t.position>^0
TorqueAt(xi, ts) ==
    SumRats([k \in 1..Len(ts) |->
        RatMul(ToRat(ts[k].magnitude), MacaulayAt(xi, ts[k].position, 0))])

\* one plane (1: XY, the fy components; 2: XZ, the fz components) of the
\* superposition of the two reactions and the forces with the bracket of power n
PlaneDiagram(ns, fs, reactions, x, plane, n) ==
    LET bearings == BearingNodes(ns)
        pos_A == bearings[1].position
        pos_B == bearings[2].position
        name_A == bearings[1].element.name
        name_B == bearings[2].element.name
        comp == [k \in 1..Len(fs) |-> IF plane = 1 THEN fy(fs[k]) ELSE fz(fs[k])]
    IN  [i \in 1..Len(x) |->
            Superpose(x[i], reactions[name_A][plane], pos_A,
                      reactions[name_B][plane], pos_B, comp, fs, n)]

\* the tuple returned when the shaft has no length
EmptyDiagrams == << << >>, << >>, << >>, << >> >>

\* a return for the unsolvable case that is one array short
ZeroDiagramsShort(x) == <<x, zeros_like(x), zeros_like(x)>>

\* the tuple returned when there are no reactions
ZeroDiagrams(x) == <<x, zeros_like(x), zeros_like(x), zeros_like(x)>>

\* the tuple returned in the solvable case
SolvedDiagrams(x, V_total, M_total, Tx) == <<x, V_total, M_total, Tx>>

\* calculate_diagrams(shaft, num_points): the returned tuple of arrays, or
\* the ValueError np.linspace raises for a negative number of samples
calculate_diagrams(ns, fs, ts, num_points) ==
    LET L == get_total_length(ns) IN
    IF L = 0 THEN EmptyDiagrams
    ELSE IF num_points < 0 THEN "ValueError"
    ELSE
    LET x == linspace(L, num_points)
        reactions == calculate_reactions(ns, fs)
    IN
    IF DOMAIN reactions = {} THEN ZeroDiagrams(x)
    ELSE
    LET Vy == PlaneDiagram(ns, fs, reactions, x, 1, 0)
        Vz == PlaneDiagram(ns, fs, reactions, x, 2, 0)
        V_total == [i \in 1..Len(x) |-> Hypot(Vy[i], Vz[i])]
        My_bending == PlaneDiagram(ns, fs, reactions, x, 1, 1)
        Mz_bending == PlaneDiagram(ns, fs, reactions, x, 2, 1)
        M_total == [i \in 1..Len(x) |-> Hypot(My_bending[i], Mz_bending[i])]
        Tx == [i \in 1..Len(x) |-> TorqueAt(x[i], ts)]
    IN  SolvedDiagrams(x, V_total, M_total, Tx)

(***************************************************************************)
(* Actions of the geometry model.                                          *)
(***************************************************************************)
AddNode(position, diameter_left, diameter_right, element) ==
    /\ nodes' = add_node(nodes, position, diameter_left, diameter_right, element)
    /\ call' = [op |-> "add_node",
                args |-> <<position, diameter_left, diameter_right, element>>]
    /\ ret' = None
    /\ UNCHANGED <<forces, torques, grid, session, opt>>

Reset ==
    /\ nodes' = << >>
    /\ forces' = << >>
    /\ torques' = << >>
    /\ call' = [op |-> "reset", args |-> << >>]
    /\ ret' = None
    /\ UNCHANGED <<grid, session, opt>>

\* shaft.forces.append(rf)
AppendForce(f) ==
    /\ Len(forces) < MaxForces
    /\ forces' = Append(forces, f)
    /\ call' = [op |-> "forces.append", args |-> <<f>>]
    /\ ret' = None
    /\ UNCHANGED <<nodes, torques, grid, session, opt>>

\* shaft.torques.append(t)
AppendTorque(t) ==
    /\ Len(torques) < MaxTorques
    /\ torques' = Append(torques, t)
    /\ call' = [op |-> "torques.append", args |-> <<t>>]
    /\ ret' = None
    /\ UNCHANGED <<nodes, forces, grid, session, opt>>

(***************************************************************************)
(* Actions of the statics solver: a call on the current shaft.             *)
(***************************************************************************)
CalculateReactions ==
    /\ ret' = calculate_reactions(nodes, forces)
    /\ call' = [op |-> "calculate_reactions", args |-> << >>]
    /\ UNCHANGED <<nodes, forces, torques, grid, session, opt>>

CalculateDiagrams(num_points) ==
    /\ ret' = calculate_diagrams(nodes, forces, torques, num_points)
    /\ call' = [op |-> "calculate_diagrams", args |-> <<num_points>>]
    /\ UNCHANGED <<nodes, forces, torques, grid, session, opt>>

(***************************************************************************)
(* Inputs.                                                                 *)
(***************************************************************************)
OptDiameters == {None, Some(30)}
GeomPositions == 0..MaxPos
GeomElements == {NoElement, Bearing("Bearing A")}
GeomForces == {RadialForce(1000, 0, 1)}
GeomTorques == {Torque(50, 2)}

StaticsPositions == {0, 300, 500}
StaticsElements == {NoElement, Bearing("Bearing A"), Bearing("Bearing B")}
StaticsForces == {RadialForce(1000, 0, 250), RadialForce(600, 90, 100)}
StaticsTorques == {Torque(50, 250), Torque(-20, 100)}
\* sample counts; np.linspace raises ValueError for a negative one
NumPoints == 0..MaxPoints

ClassicPositions == {0, 500}
ClassicElements == {Bearing("Bearing A"), Bearing("Bearing B")}
ClassicForces == {RadialForce(1000, 0, 250)}
\* odd sample counts whose middle sample, (num_points - 1)/2 times the
\* step in doubles, is a neighbour of 250: 250.00000000000003 with 31
\* samples, 249.99999999999997 with 123
MisroundedNumPoints == {31, 123}
ClassicNumPoints ==
    (1..MaxPoints) \cup MisroundedNumPoints \cup {DefaultNumPoints, DefaultNumPoints + 1}

(***************************************************************************)
(* Specifications.  Every run starts from Shaft(): empty lists, an empty   *)
(* session state (a key that is not set is None) and no optimizer run.     *)
(***************************************************************************)
EmptySession ==
    [start_diameter |-> None, features |-> << >>,
     bearing_a_pos |-> None, bearing_b_pos |-> None]

IdleOpt ==
    [pc |-> "idle", iteration |-> 0, iteration_log |-> << >>, solver_runs |-> 0,
     exit |-> "none"]

InitShaft ==
    /\ nodes = << >>
    /\ forces = << >>
    /\ torques = << >>
    /\ call = [op |-> "Shaft", args |-> << >>]
    /\ ret = None
    /\ session = EmptySession
    /\ opt = IdleOpt

\* The geometry model on the grid of 1/150000 mm; at most one force and one
\* torque are appended, which is what the frame conditions of add_node need.
Init == InitShaft /\ grid = FineGrid

Next ==
    \/ \E position \in GeomPositions, dl \in OptDiameters, dr \in OptDiameters,
          element \in GeomElements : AddNode(position, dl, dr, element)
    \/ \E f \in GeomForces : forces = << >> /\ AppendForce(f)
    \/ \E t \in GeomTorques : torques = << >> /\ AppendTorque(t)
    \/ Reset

Spec == Init /\ [][Next]_vars

\* The statics solver on shafts with positions in whole millimetres.
InitStatics == InitShaft /\ grid = 1

NextStatics ==
    \/ \E position \in StaticsPositions, element \in StaticsElements :
          AddNode(position, None, None, element)
    \/ \E f \in StaticsForces : AppendForce(f)
    \/ \E t \in StaticsTorques : AppendTorque(t)
    \/ Reset
    \/ CalculateReactions
    \/ \E num_points \in NumPoints : CalculateDiagrams(num_points)

SpecStatics == InitStatics /\ [][NextStatics]_vars

\* The classical simply supported shaft: bearings at 0 and 500 mm, one
\* 1000 N vertical force at 250 mm.
NextClassic ==
    \/ \E position \in ClassicPositions, element \in ClassicElements :
          AddNode(position, None, None, element)
    \/ \E f \in ClassicForces : AppendForce(f)
    \/ CalculateReactions
    \/ \E num_points \in ClassicNumPoints : CalculateDiagrams(num_points)

SpecClassic == InitStatics /\ [][NextClassic]_vars

(***************************************************************************)
(* Properties of Shaft.add_node, checked under Spec.                       *)
(***************************************************************************)
IsAddNode(c) == c.op = "add_node"
HasNear(ns, position) == \E i \in 1..Len(ns) : Near(ns[i].position, position)

\* C1: after any sequence of add_node calls from the empty shaft the node
\* list is in strictly increasing order of position and no two nodes are
\* closer than the tolerance of 1e-5 mm.
C1_SortedNoDuplicates ==
    \A i \in 1..Len(nodes) : \A j \in (i + 1)..Len(nodes) :
        /\ nodes[i].position < nodes[j].position
        /\ ~Near(nodes[i].position, nodes[j].position)

\* a node was last inserted in front of two others, two grid steps before
\* the first of them: one step closer it would have merged
C1_Witness ==
    /\ IsAddNode(call)
    /\ Len(nodes) = 3
    /\ nodes[1].position = call.args[1]
    /\ nodes[2].position - nodes[1].position = 2
    /\ Near(nodes[2].position - 1, nodes[1].position)

\* C2: add_node at a position within the tolerance of an existing node adds
\* no node and changes only the fields of that node that were passed as
\* non-None; its position and other fields, every other node and the force
\* and torque lists stay as they were.
C2_MergeChangesOnlyPassedFields ==
    [][(IsAddNode(call') /\ HasNear(nodes, call'.args[1])) =>
        /\ Len(nodes') = Len(nodes)
        /\ forces' = forces
        /\ torques' = torques
        /\ \E i \in 1..Len(nodes) :
            /\ Near(nodes[i].position, call'.args[1])
            /\ nodes'[i].position = nodes[i].position
            /\ nodes'[i].diameter_left =
                    IF IsNone(call'.args[2]) THEN nodes[i].diameter_left
                    ELSE Val(call'.args[2])
            /\ nodes'[i].diameter_right =
                    IF IsNone(call'.args[3]) THEN nodes[i].diameter_right
                    ELSE Val(call'.args[3])
            /\ nodes'[i].element =
                    IF call'.args[4] = NoElement THEN nodes[i].element
                    ELSE call'.args[4]
            /\ \A j \in 1..Len(nodes) : j # i => nodes'[j] = nodes[j]]_vars

\* the last call passed only diameter_left, at a position close to but not
\* equal to that of a node that keeps its bearing and its other diameter
C2_Witness ==
    /\ IsAddNode(call)
    /\ ~IsNone(call.args[2]) /\ IsNone(call.args[3]) /\ call.args[4] = NoElement
    /\ Len(nodes) = 2 /\ Len(forces) > 0 /\ Len(torques) > 0
    /\ \E i \in 1..Len(nodes) :
        /\ nodes[i].position # call.args[1]
        /\ Near(nodes[i].position, call.args[1])
        /\ nodes[i].diameter_left = Val(call.args[2])
        /\ nodes[i].diameter_right # nodes[i].diameter_left
        /\ nodes[i].element.kind = "Bearing"

\* the diameters of the nodes next to a position on either side
NeighbourDiameters(ns, position) ==
    LET left == {i \in 1..Len(ns) : ns[i].position < position}
        right == {i \in 1..Len(ns) : ns[i].position > position}
        adj == {i \in left : \A j \in left : j <= i}
                 \cup {i \in right : \A j \in right : i <= j}
    IN  {ns[i].diameter_left : i \in adj} \cup {ns[i].diameter_right : i \in adj}

\* C3: add_node at a position with no node inserts a node there whose unset
\* diameters are the nearest known diameter of the existing nodes, and
\* 20 mm only when the shaft is empty.
C3_DefaultsToNearestDiameter ==
    [][(IsAddNode(call') /\ ~HasNear(nodes, call'.args[1])) =>
        /\ Len(nodes') = Len(nodes) + 1
        /\ \E i \in 1..Len(nodes') :
            /\ nodes'[i].position = call'.args[1]
            /\ IsNone(call'.args[2]) =>
                 IF nodes = << >> THEN nodes'[i].diameter_left = DefaultDiameter
                 ELSE nodes'[i].diameter_left
                        \in NeighbourDiameters(nodes, call'.args[1])
            /\ IsNone(call'.args[3]) =>
                 IF nodes = << >> THEN nodes'[i].diameter_right = DefaultDiameter
                 ELSE nodes'[i].diameter_right
                        \in NeighbourDiameters(nodes, call'.args[1])]_vars

(***************************************************************************)
(* Properties of the statics solver, checked under SpecStatics, and of the *)
(* classical case, checked under SpecClassic.                              *)
(***************************************************************************)
IsReactions(c) == c.op = "calculate_reactions"
IsDiagrams(c) == c.op = "calculate_diagrams"
BearingCount == Cardinality({i \in 1..Len(nodes) : nodes[i].element.kind = "Bearing"})
SumFy == SumInts([k \in 1..Len(forces) |-> fy(forces[k])])
SumFz == SumInts([k \in 1..Len(forces) |-> fz(forces[k])])
MomentFyAbout(p) ==
    SumInts([k \in 1..Len(forces) |-> fy(forces[k]) * (forces[k].position - p)])
MomentFzAbout(p) ==
    SumInts([k \in 1..Len(forces) |-> fz(forces[k]) * (forces[k].position - p)])

\* C4: calculate_reactions returns an empty result whenever the number of
\* bearing nodes is not exactly two, whatever the forces.
C4_EmptyUnlessTwoBearings ==
    (IsReactions(call) /\ BearingCount # 2) => DOMAIN ret = {}

\* reactions were asked of a loaded shaft with three bearings
C4_Witness ==
    /\ IsReactions(call)
    /\ BearingCount = 3
    /\ Len(forces) = 2
    /\ DOMAIN ret = {}

\* C5: with exactly two bearings at distinct positions the returned
\* reactions are in equilibrium in each plane, Ray + Rby + sum(fy) = 0 and
\* Raz + Rbz + sum(fz) = 0, with R_B * L = - sum(F_i * (x_i - pos_A)).
C5_Equilibrium ==
    (IsReactions(call) /\ BearingCount = 2) =>
        LET b == BearingNodes(nodes)
            pos_A == b[1].position
            L == b[2].position - pos_A
            Ra == ret[b[1].element.name]
            Rb == ret[b[2].element.name]
        IN  L # 0 =>
            /\ RatAdd(RatAdd(Ra[1], Rb[1]), ToRat(SumFy)) = Zero
            /\ RatAdd(RatAdd(Ra[2], Rb[2]), ToRat(SumFz)) = Zero
            /\ RatMul(Rb[1], ToRat(L)) = ToRat(-MomentFyAbout(pos_A))
            /\ RatMul(Rb[2], ToRat(L)) = ToRat(-MomentFzAbout(pos_A))

\* the classical shaft: bearings at 0 and 500 mm, 1000 N at 250 mm, angle 0
Classical ==
    /\ grid = 1
    /\ Len(nodes) = 2
    /\ nodes[1].position = 0 /\ nodes[1].element.kind = "Bearing"
    /\ nodes[2].position = 500 /\ nodes[2].element.kind = "Bearing"
    /\ forces = <<RadialForce(1000, 0, 250)>>

ClassicalReactions ==
    (Classical /\ IsReactions(call)) =>
        /\ ret[nodes[1].element.name][1] = ToRat(-500)
        /\ ret[nodes[2].element.name][1] = ToRat(-500)

\* the largest entry of a non-empty array of magnitudes
MaxMagnitude(arr) ==
    CHOOSE m \in {arr[i] : i \in 1..Len(arr)} :
        \A i \in 1..Len(arr) : RatLeq(arr[i], m)

\* C6 as stated: in the classical case Ray = Rby = -500 N and the largest
\* bending moment of the diagram that calculate_diagrams returns (with its
\* default number of samples) is 125000 N*mm, at x = 250.
C6_ClassicalMaxAtMidspan ==
    /\ ClassicalReactions
    /\ (Classical /\ IsDiagrams(call) /\ call.args[1] = DefaultNumPoints) =>
        /\ MaxMagnitude(ret[3]) = ToRat(125000)
        /\ \E i \in 1..Len(ret[1]) :
                ret[1][i] = ToRat(250) /\ ret[3][i] = ToRat(125000)

\* the middle sample of an odd number n of samples is the double 250
MiddleIsMidspan(n) ==
    /\ n % 2 = 1 /\ n >= 3
    /\ Rounding(get_total_length(nodes), n - 1, (n - 1) \div 2) = 0

\* C6 amended: in the classical case Ray = Rby = -500 N.  When x = 250 is
\* one of the samples, the largest bending moment of the diagram is
\* 125000 N*mm, at x = 250 and nowhere else.  x = 250 is a sample exactly
\* when num_points is odd, at least 3, and the middle sample that
\* np.linspace computes in doubles is 250: it is with 3 and 201 samples,
\* it is not with 31 or 123.  When num_points is even, as the default 200
\* is, no sample is at x = 250 and the largest sampled moment is
\* 125000 * (num_points - 2) / (num_points - 1), which is below 125000.
C6_ClassicalMaxSampled ==
    /\ ClassicalReactions
    /\ (Classical /\ IsDiagrams(call)) =>
        LET n == call.args[1]
            x == ret[1]
            M == ret[3]
            sampled == \E i \in 1..n : x[i] = ToRat(250)
        IN  /\ sampled =>
                /\ MaxMagnitude(M) = ToRat(125000)
                /\ \A i \in 1..n : (M[i] = ToRat(125000)) <=> (x[i] = ToRat(250))
            /\ sampled <=> MiddleIsMidspan(n)
            /\ n \in {3, DefaultNumPoints + 1} => sampled
            /\ n \in MisroundedNumPoints => ~sampled
            /\ (n % 2 = 0 /\ n >= 2) =>
                /\ MaxMagnitude(M) = Rat(125000 * (n - 2), n - 1)
                /\ \A i \in 1..n : x[i] # ToRat(250)

\* the classical diagram with 201 samples: sample 101 is x = 250
C6_Witness ==
    /\ Classical
    /\ IsDiagrams(call)
    /\ call.args[1] = DefaultNumPoints + 1
    /\ ret[1][101] = ToRat(250)
    /\ ret[3][101] = ToRat(125000)

\* C7: for a shaft of non-zero length calculate_diagrams returns the six
\* arrays x, V_total, Ma, Mm, Ta, Tm, each of length num_points.
C7_SixArrays ==
    (IsDiagrams(call) /\ get_total_length(nodes) # 0) =>
        /\ Len(ret) = 6
        /\ \A k \in 1..Len(ret) : Len(ret[k]) = call.args[1]

\* C8: for static transverse forces the returned mean bending Mm is 0 at
\* every sample and the alternating bending Ma is the resultant
\* sqrt(My^2 + Mz^2) at every sample.
C8_MeanBendingZero ==
    (IsDiagrams(call) /\ get_total_length(nodes) # 0 /\ BearingCount = 2) =>
        /\ Len(ret) = 6
        /\ LET x == ret[1]
               r == calculate_reactions(nodes, forces)
               My == PlaneDiagram(nodes, forces, r, x, 1, 1)
               Mz == PlaneDiagram(nodes, forces, r, x, 2, 1)
           IN  \A i \in 1..Len(x) :
                    /\ ret[4][i] = Zero
                    /\ ret[3][i] = Hypot(My[i], Mz[i])

\* C9: the returned torque arrays are the step sums of the torques at or
\* before each sample, Ta of their alternating and Tm of their mean parts;
\* a torque given as a single magnitude counts in Tm and not in Ta.
C9_TorqueSteps ==
    (IsDiagrams(call) /\ get_total_length(nodes) # 0 /\ BearingCount = 2) =>
        /\ Len(ret) = 6
        /\ \A i \in 1..Len(ret[1]) :
                /\ ret[5][i] = Zero
                /\ ret[6][i] = TorqueAt(ret[1][i], torques)

\* C10: on a shaft of zero length, or with a number of bearings other than
\* two, calculate_diagrams returns as many arrays as in the solvable case,
\* all of one length (none for zero length, num_points otherwise), the
\* arrays after x zero-filled.
C10_DegenerateDiagrams ==
    (IsDiagrams(call) /\ (get_total_length(nodes) = 0 \/ BearingCount # 2)) =>
        /\ Len(ret) = Len(SolvedDiagrams(<< >>, << >>, << >>, << >>))
        /\ \A k \in 1..Len(ret) :
            /\ Len(ret[k]) = IF get_total_length(nodes) = 0 THEN 0 ELSE call.args[1]
            /\ k > 1 => \A i \in 1..Len(ret[k]) : ret[k][i] = Zero

\* diagrams were asked, at three samples, of a loaded shaft with one bearing
C10_Witness ==
    /\ IsDiagrams(call)
    /\ call.args[1] = 3
    /\ get_total_length(nodes) = 500
    /\ BearingCount = 1
    /\ Len(forces) > 0 /\ Len(torques) > 0
    /\ ret[3] = <<Zero, Zero, Zero>>

(***************************************************************************)
(* Loads carried by node elements.  The editor builds a SpurGear (or       *)
(* Pulley) element, appends the manually entered force to the element's    *)
(* manual_forces list and attaches the element to the node at the force's  *)
(* position.  The force is not appended to Shaft.forces.                   *)
(***************************************************************************)
SpurGear(name, manual_forces) ==
    [kind |-> "SpurGear", name |-> name, manual_forces |-> manual_forces]

LoadsPositions == {0, 250, 500}
\* the elements the editor can attach at a position
LoadsElementsAt(position) ==
    {NoElement, Bearing("Bearing A"), Bearing("Bearing B"),
     SpurGear("Gear", << >>),
     SpurGear("Gear", <<RadialForce(800, 0, position)>>)}
LoadsForces == {RadialForce(1000, 0, 250)}

NextLoads ==
    \/ \E position \in LoadsPositions :
          \E element \in LoadsElementsAt(position) :
             AddNode(position, None, None, element)
    \/ \E f \in LoadsForces : AppendForce(f)
    \/ CalculateReactions
    \/ \E num_points \in NumPoints : CalculateDiagrams(num_points)

\* Shafts whose nodes carry gears with manual forces.
SpecLoads == InitStatics /\ [][NextLoads]_vars

\* the forces carried by the elements of the nodes, in node order
RECURSIVE ElementForces(_)
ElementForces(ns) ==
    IF ns = << >> THEN << >>
    ELSE (IF ns[1].element.kind = "SpurGear"
          THEN ns[1].element.manual_forces ELSE << >>)
         \o ElementForces(Tail(ns))
\* every load on the shaft: the shaft-level forces and the element forces
AllForces == forces \o ElementForces(nodes)
DistinctBearingNames ==
    LET b == BearingNodes(nodes) IN Len(b) = 2 /\ b[1].element.name # b[2].element.name

\* C11: the reactions are computed over every load on the shaft, the
\* shaft-level forces together with the forces carried by node elements:
\* with two bearings the reactions balance the sum of all of them,
\* Ray + Rby + sum(fy over all loads) = 0 and likewise about bearing A.
C11_ReactionsBalanceAllLoads ==
    (IsReactions(call) /\ DistinctBearingNames) =>
        LET b == BearingNodes(nodes)
            pos_A == b[1].position
            L == b[2].position - pos_A
            Ra == ret[b[1].element.name]
            Rb == ret[b[2].element.name]
            all == AllForces
        IN  /\ RatAdd(RatAdd(Ra[1], Rb[1]),
                      ToRat(SumInts([k \in 1..Len(all) |-> fy(all[k])]))) = Zero
            /\ RatMul(Rb[1], ToRat(L)) =
                  ToRat(-SumInts([k \in 1..Len(all) |->
                                     fy(all[k]) * (all[k].position - pos_A)]))

(***************************************************************************)
(* Fatigue factors (Marin).  Strengths are in Pa, as integers.  A power    *)
(* with a real exponent has no rational value: a * pow(x, b) is kept as    *)
(* the term PowTerm(a, x, b) of three rationals, and a product of factors  *)
(* as the list of its factors.  Strings are written without accents.       *)
(***************************************************************************)
PowTerm(a, x, b) == <<"a*pow(x,b)", a, x, b>>

\* K_fadiga: Se' = 0.5 Sut up to 1400 MPa, 700 MPa above
K_fadiga(res_ult) ==
    IF res_ult <= 1400000000 THEN Rat(res_ult, 2) ELSE ToRat(700000000)

acabamentoDict ==
    ("retificado" :> <<Rat(158, 100), Rat(-85, 1000)>>) @@
    ("laminado a frio" :> <<Rat(451, 100), Rat(-265, 1000)>>) @@
    ("usinado" :> <<Rat(451, 100), Rat(-265, 1000)>>) @@
    ("laminado a quente" :> <<Rat(577, 10), Rat(-718, 1000)>>) @@
    ("forjado" :> <<ToRat(272), Rat(-995, 1000)>>)

\* a surface factor that takes the machined row for a key not in the table
K_acabamentoMachinedDefault(res_ult, acab_sup) ==
    LET row == IF acab_sup \notin DOMAIN acabamentoDict
               THEN acabamentoDict["usinado"] ELSE acabamentoDict[acab_sup]
    IN  PowTerm(row[1], Rat(res_ult, 1000000), row[2])

\* K_acabamento: ka = a * sut_mpa ** b, 1.0 for a key not in the table
K_acabamento(res_ult, acab_sup) ==
    IF acab_sup \notin DOMAIN acabamentoDict THEN One
    ELSE LET sut_mpa == Rat(res_ult, 1000000)
             row == acabamentoDict[acab_sup]
         IN  PowTerm(row[1], sut_mpa, row[2])

\* K_tamanho: kb, diam in metres
K_tamanho(tipo_carga, diam) ==
    LET de_mm == RatMul(diam, ToRat(1000)) IN
    IF tipo_carga \notin {"flexao", "torcao"} THEN One
    ELSE IF RatLess(de_mm, Rat(279, 100))
         THEN PowTerm(Rat(124, 100), Rat(279, 100), Rat(-107, 1000))
    ELSE IF RatLeq(de_mm, ToRat(51))
         THEN PowTerm(Rat(124, 100), de_mm, Rat(-107, 1000))
    ELSE IF RatLeq(de_mm, ToRat(254))
         THEN PowTerm(Rat(151, 100), de_mm, Rat(-157, 1000))
    ELSE Rat(6, 10)

\* K_carga: kc
K_carga(tipo_carga) ==
    LET kc == ("flexao" :> One) @@ ("axial" :> Rat(85, 100)) @@ ("torcao" :> Rat(59, 100))
    IN  IF tipo_carga \in DOMAIN kc THEN kc[tipo_carga] ELSE One

\* K_temperatura: kd, from the table; off the table the clamped polynomial
\* in tc, kept as a term
K_temperatura(tc) ==
    LET k_table == (20 :> One) @@ (50 :> Rat(1010, 1000)) @@ (100 :> Rat(1020, 1000)) @@
                   (150 :> Rat(1025, 1000)) @@ (200 :> Rat(1020, 1000)) @@ (250 :> One) @@
                   (300 :> Rat(975, 1000)) @@ (350 :> Rat(943, 1000)) @@ (400 :> Rat(900, 1000)) @@
                   (450 :> Rat(843, 1000)) @@ (500 :> Rat(768, 1000)) @@ (550 :> Rat(672, 1000)) @@
                   (600 :> Rat(549, 1000))
    IN  IF tc \in DOMAIN k_table THEN k_table[tc] ELSE <<"kd_polynomial", tc>>

k_conf ==
    ("50%" :> One) @@ ("90%" :> Rat(897, 1000)) @@ ("95%" :> Rat(868, 1000)) @@
    ("99%" :> Rat(814, 1000)) @@ ("99.9%" :> Rat(753, 1000)) @@
    ("99.99%" :> Rat(702, 1000)) @@ ("99.999%" :> Rat(659, 1000)) @@
    ("99.9999%" :> Rat(620, 1000))

\* a reliability factor that takes the 99% value for a key not in the table
K_conf99Default(confiabilidade) ==
    IF confiabilidade \in DOMAIN k_conf THEN k_conf[confiabilidade] ELSE k_conf["99%"]

\* K_conf: ke = k_conf.get(confiabilidade, 1.0)
K_conf(confiabilidade) ==
    IF confiabilidade \in DOMAIN k_conf THEN k_conf[confiabilidade] ELSE One

\* marin_eq: s_e = ka * kb * kc * kd * ke * kf_misc * se_est, the factors
\* in the order of the product
marin_eq(res_ult, se_est, acab_superficial, diam, tip_carga, temp, confiabilidade, kf_misc) ==
    LET ka == K_acabamento(res_ult, acab_superficial)
        kb == K_tamanho(tip_carga, diam)
        kc == K_carga(tip_carga)
        kd == K_temperatura(temp)
        ke == K_conf(confiabilidade)
    IN  <<"product", ka, kb, kc, kd, ke, kf_misc, se_est>>

\* calculate_endurance_limit(Sut, diameter, surface_finish, reliability),
\* diameter in mm
calculate_endurance_limit(Sut, diameter, surface_finish, reliability) ==
    LET Se_prime == K_fadiga(Sut)
    IN  marin_eq(Sut, Se_prime, surface_finish, Rat(diameter, 1000), "flexao", 20,
                 reliability, One)

\* Python truthiness of an optional float: None and 0.0 are false
Truthy(o) == ~IsNone(o) /\ Val(o) # Zero

\* dict.get(key, default)
DictGet(d, key, default) == IF key \in DOMAIN d THEN d[key] ELSE default

DefaultFatigueConfig ==
    ("surface" :> "usinado") @@ ("reliability" :> "99%") @@ ("temp" :> 20) @@ ("kf" :> One)

\* a rational (a float of the code), as against a term or a product
IsRat(v) == Len(v) = 2 /\ v[1] \in Int /\ v[2] \in Int

\* the squared load term 4 (Kf M)^2 + 3 (Kfs T)^2 with the weights exchanged
LoadTermSquaredSwapped(Kf, moment, Kfs, torque) ==
    RatAdd(RatMul(ToRat(3), RatPow(RatMul(Kf, moment), 2)),
           RatMul(ToRat(4), RatPow(RatMul(Kfs, torque), 2)))

\* A**2 and B**2: 4 (Kf M)^2 + 3 (Kfs T)^2
LoadTermSquared(Kf, moment, Kfs, torque) ==
    RatAdd(RatMul(ToRat(4), RatPow(RatMul(Kf, moment), 2)),
           RatMul(ToRat(3), RatPow(RatMul(Kfs, torque), 2)))

\* calculate_min_diameter: the diameter in mm,
\*   1000 * ((16 n / pi) * sqrt((A/Se)^2 + (B/Sy)^2)) ** (1/3).
\* The value is kept as the term <<.., c, q>> with c = 16 n and
\* q = (A/Se)^2 + (B/Sy)^2, a rational when Se is one.
calculate_min_diameter(moment_amp, torque_mean, Sut, Sy, moment_mean, torque_amp, Kf, Kfs, n, fatigue_config, se_overwrite) ==
    LET config == IF IsNone(fatigue_config) THEN DefaultFatigueConfig
                  ELSE Val(fatigue_config)
        d_guess == Rat(5, 100)
        Se == IF Truthy(se_overwrite) THEN Val(se_overwrite)
              ELSE marin_eq(Sut, K_fadiga(Sut), DictGet(config, "surface", "usinado"),
                            d_guess, "flexao", DictGet(config, "temp", 20),
                            DictGet(config, "reliability", "99%"),
                            DictGet(config, "kf", One))
        A2 == LoadTermSquared(Kf, moment_amp, Kfs, torque_amp)
        B2 == LoadTermSquared(Kf, moment_mean, Kfs, torque_mean)
        q == IF IsRat(Se)
             THEN RatAdd(RatDiv(A2, RatPow(Se, 2)), RatDiv(B2, RatPow(Sy, 2)))
             ELSE <<"A2/Se^2+B2/Sy^2", A2, Se, B2, Sy>>
    IN  <<"1000*cbrt(c/pi*sqrt(q))", RatMul(ToRat(16), n), q>>

(***************************************************************************)
(* Calls of the fatigue evaluator.  An omitted keyword argument is None    *)
(* and takes the default of the signature.                                 *)
(***************************************************************************)
Default(o, d) == IF IsNone(o) THEN d ELSE Val(o)

KAcabamento(res_ult, acab_sup) ==
    /\ ret' = K_acabamento(res_ult, acab_sup)
    /\ call' = [op |-> "K_acabamento", args |-> <<res_ult, acab_sup>>]
    /\ UNCHANGED <<nodes, forces, torques, grid, session, opt>>

KConf(confiabilidade) ==
    /\ ret' = K_conf(confiabilidade)
    /\ call' = [op |-> "K_conf", args |-> <<confiabilidade>>]
    /\ UNCHANGED <<nodes, forces, torques, grid, session, opt>>

CalculateEnduranceLimit(Sut, diameter, surface_finish, reliability) ==
    /\ ret' = calculate_endurance_limit(Sut, Default(diameter, DefaultDiameter),
                                        Default(surface_finish, "usinado"),
                                        Default(reliability, "99%"))
    /\ call' = [op |-> "calculate_endurance_limit",
                args |-> <<Sut, diameter, surface_finish, reliability>>]
    /\ UNCHANGED <<nodes, forces, torques, grid, session, opt>>

CalculateMinDiameter(moment_amp, torque_mean, Sut, Sy, moment_mean, torque_amp, n, fatigue_config, se_overwrite) ==
    /\ ret' = calculate_min_diameter(moment_amp, torque_mean, Sut, Sy,
                                     Default(moment_mean, Zero), Default(torque_amp, Zero),
                                     One, One, n, fatigue_config, se_overwrite)
    /\ call' = [op |-> "calculate_min_diameter",
                args |-> <<moment_amp, torque_mean, Sut, Sy, moment_mean, torque_amp,
                           n, fatigue_config, se_overwrite>>]
    /\ UNCHANGED <<nodes, forces, torques, grid, session, opt>>

MaxLoad == 2        \* moments and torques are 0..MaxLoad N.m
MaxStrength == 2    \* Se and Sy are 1..MaxStrength

FatigueSut == {380000000, 565000000, 1500000000}
FatigueDiameters == {None, Some(2), Some(51), Some(60), Some(300)}
FatigueFinishes == {None, Some("usinado"), Some("retificado"), Some("forjado"),
                    Some("polido")}
FatigueReliabilities == {None, Some("50%"), Some("99%"), Some("99.9%"), Some("98%")}
FatigueLoads == {ToRat(m) : m \in 0..MaxLoad}
FatigueStrengths == {ToRat(s) : s \in 1..MaxStrength}
FatigueSafetyFactors == {One, Rat(3, 2), ToRat(2)}
FatigueConfigs == {None, Some(("surface" :> "polido")),
                   Some(("reliability" :> "98%") @@ ("temp" :> 100))}
FatigueSeOverwrite == {None, Some(Zero)} \cup {Some(s) : s \in FatigueStrengths}

\* The functions are pure: a behaviour is one call, made on a fresh state,
\* with arguments drawn from the sets above.
Fresh == call.op = "Shaft"

NextFatigue ==
    \/ Fresh /\ \E res_ult \in FatigueSut, acab_sup \in FatigueFinishes \ {None} :
                   KAcabamento(res_ult, Val(acab_sup))
    \/ Fresh /\ \E confiabilidade \in FatigueReliabilities \ {None} :
                   KConf(Val(confiabilidade))
    \/ Fresh /\ \E Sut \in FatigueSut, diameter \in FatigueDiameters,
                   surface_finish \in FatigueFinishes,
                   reliability \in FatigueReliabilities :
                   CalculateEnduranceLimit(Sut, diameter, surface_finish, reliability)
    \/ Fresh /\ \E moment_amp \in FatigueLoads, torque_mean \in FatigueLoads,
                   Sy \in FatigueStrengths, n \in FatigueSafetyFactors,
                   moment_mean \in {None, Some(One)}, torque_amp \in {None, Some(One)},
                   fatigue_config \in FatigueConfigs,
                   se_overwrite \in FatigueSeOverwrite :
                   CalculateMinDiameter(moment_amp, torque_mean, 380000000, Sy,
                                        moment_mean, torque_amp, n, fatigue_config,
                                        se_overwrite)

\* The fatigue evaluator as pure functions of their arguments.
SpecFatigue == InitStatics /\ [][NextFatigue]_vars

IsCall(c, op) == c.op = op

\* C13: for a surface-finish key that is not in the finish table, ka is
\* computed with the machined coefficients: it equals the ka of 'usinado'
\* at the same Sut.
C13_UnknownFinishIsMachined ==
    (IsCall(call, "K_acabamento") /\ call.args[2] \notin DOMAIN acabamentoDict) =>
        ret = K_acabamento(call.args[1], "usinado")

\* C13 as the code has it: for a surface-finish key that is not in the
\* finish table ka is 1.0 at every Sut (no surface correction, no failure);
\* it differs from the ka of 'usinado', which an omitted finish gets.
C13_UnknownFinishIsOne ==
    /\ (IsCall(call, "K_acabamento") /\ call.args[2] \notin DOMAIN acabamentoDict) =>
          /\ ret = One
          /\ ret # K_acabamento(call.args[1], "usinado")
    /\ (IsCall(call, "calculate_endurance_limit") /\ IsNone(call.args[3])) =>
          ret[2] = K_acabamento(call.args[1], "usinado")

\* ka was asked for the finish 'polido', which the table does not hold
C13_Witness ==
    /\ IsCall(call, "K_acabamento")
    /\ call.args = <<565000000, "polido">>
    /\ ret = One

\* C14: for a reliability key that matches no table entry, ke is 0.814 (the
\* 99% value), so the corrected endurance limit for an unknown reliability
\* equals the one for '99%'.
C14_UnknownReliabilityIs99 ==
    /\ (IsCall(call, "K_conf") /\ call.args[1] \notin DOMAIN k_conf) =>
          ret = Rat(814, 1000)
    /\ (IsCall(call, "calculate_endurance_limit") /\ ~IsNone(call.args[4])
            /\ Val(call.args[4]) \notin DOMAIN k_conf) =>
          ret = calculate_endurance_limit(call.args[1],
                                          Default(call.args[2], DefaultDiameter),
                                          Default(call.args[3], "usinado"), "99%")

\* C14 as the code has it: for a reliability key that matches no table entry,
\* ke is 1.0 (the 50% value), so the corrected endurance limit for an unknown
\* reliability equals the one for '50%'; an omitted reliability is '99%' and
\* gets 0.814.
C14_UnknownReliabilityIs50 ==
    /\ (IsCall(call, "K_conf") /\ call.args[1] \notin DOMAIN k_conf) =>
          ret = One /\ ret = K_conf("50%")
    /\ (IsCall(call, "calculate_endurance_limit") /\ ~IsNone(call.args[4])
            /\ Val(call.args[4]) \notin DOMAIN k_conf) =>
          /\ ret = calculate_endurance_limit(call.args[1],
                                             Default(call.args[2], DefaultDiameter),
                                             Default(call.args[3], "usinado"), "50%")
          /\ ret[6] = One
    /\ (IsCall(call, "calculate_endurance_limit") /\ IsNone(call.args[4])) =>
          ret[6] = Rat(814, 1000)

\* the endurance limit was asked for the reliability '98%', which the table
\* does not hold
C14_Witness ==
    /\ IsCall(call, "calculate_endurance_limit")
    /\ call.args = <<565000000, Some(60), None, Some("98%")>>
    /\ ret[6] = One
    /\ ret[8] = Rat(565000000, 2)

\* The ASME-elliptic equation 1/n' = (16 / (pi d^3)) * sqrt(q), solved for
\* n'^2, at the diameter d (mm) that calculate_min_diameter returned:
\* with (d/1000)^3 = (c/pi) sqrt(qd), n'^2 = c^2 qd / (256 q).
SafetyFactorSquared(d, q) == RatDiv(RatMul(RatPow(d[2], 2), d[3]), RatMul(ToRat(256), q))

\* C12: fatigue round trip.  For positive Se, Sy and n and load magnitudes
\* Ma and Tm (not both zero) with Mm = 0 and Ta = 0, the diameter returned
\* by calculate_min_diameter, put back into the ASME-elliptic equation
\* 1/n' = (16/(pi d^3)) sqrt((A/Se)^2 + (B/Sy)^2) with A = 2 Ma and
\* B = sqrt(3) Tm, gives n' = n.
C12_RoundTrip ==
    (/\ IsCall(call, "calculate_min_diameter")
     /\ IsNone(call.args[5]) /\ IsNone(call.args[6])
     /\ Truthy(call.args[9])
     /\ call.args[1] # Zero \/ call.args[2] # Zero) =>
        LET Ma == call.args[1]
            Tm == call.args[2]
            Sy == call.args[4]
            n == call.args[7]
            Se == Val(call.args[9])
            q == RatAdd(RatDiv(RatMul(ToRat(4), RatMul(Ma, Ma)), RatMul(Se, Se)),
                        RatDiv(RatMul(ToRat(3), RatMul(Tm, Tm)), RatMul(Sy, Sy)))
        IN  /\ IsRat(ret[3])
            /\ SafetyFactorSquared(ret, q) = RatMul(n, n)

\* the diameter was asked for Ma = 1, Tm = 2, Sy = 1, n = 3/2, Se = 2:
\* d^3 = (24 / pi) sqrt(13)
C12_Witness ==
    /\ IsCall(call, "calculate_min_diameter")
    /\ call.args = <<One, ToRat(2), 380000000, One, None, None, Rat(3, 2), None,
                     Some(ToRat(2))>>
    /\ ret[2] = ToRat(24)
    /\ ret[3] = ToRat(13)

(***************************************************************************)
(* Catalog of standard diameters (mm) and rounding up to it.               *)
(***************************************************************************)
STANDARD_DIAMETERS ==
    <<10, 12, 15, 17, 20, 25, 30, 35, 40, 45, 50, 55, 60, 65, 70, 75, 80, 85,
      90, 95, 100>>

\* a search that skips an entry equal to the required diameter
RECURSIVE FirstAbove(_, _)
FirstAbove(list, d_calc) ==
    IF list = << >> THEN STANDARD_DIAMETERS[Len(STANDARD_DIAMETERS)]
    ELSE IF RatLess(d_calc, ToRat(list[1])) THEN list[1]
    ELSE FirstAbove(Tail(list), d_calc)

\* for d in list: if d >= d_calc: return d;  return STANDARD_DIAMETERS[-1]
RECURSIVE FirstAtLeast(_, _)
FirstAtLeast(list, d_calc) ==
    IF list = << >> THEN STANDARD_DIAMETERS[Len(STANDARD_DIAMETERS)]
    ELSE IF RatLeq(d_calc, ToRat(list[1])) THEN list[1]
    ELSE FirstAtLeast(Tail(list), d_calc)

find_nearest_standard(d_calc) == FirstAtLeast(STANDARD_DIAMETERS, d_calc)

\* max(list) of a non-empty list of integers
RECURSIVE MaxOf(_)
MaxOf(list) ==
    IF Len(list) = 1 THEN list[1]
    ELSE LET m == MaxOf(Tail(list)) IN IF list[1] >= m THEN list[1] ELSE m

\* the rounding inside optimize_shaft:
\*   valid_diams = [d for d in STANDARD_DIAMETERS if d >= d_req_mm]
\*   suggested_d = valid_diams[0] if valid_diams else max(STANDARD_DIAMETERS)
suggested_d(d_req_mm) ==
    LET AtLeast(d) == RatLeq(d_req_mm, ToRat(d))
        valid_diams == SelectSeq(STANDARD_DIAMETERS, AtLeast)
    IN  IF valid_diams # << >> THEN valid_diams[1] ELSE MaxOf(STANDARD_DIAMETERS)

FindNearestStandard(d_calc) ==
    /\ ret' = find_nearest_standard(d_calc)
    /\ call' = [op |-> "find_nearest_standard", args |-> <<d_calc>>]
    /\ UNCHANGED <<nodes, forces, torques, grid, session, opt>>

SuggestedDiameter(d_req_mm) ==
    /\ ret' = suggested_d(d_req_mm)
    /\ call' = [op |-> "suggested_d", args |-> <<d_req_mm>>]
    /\ UNCHANGED <<nodes, forces, torques, grid, session, opt>>

MaxRequired == 205      \* required diameters are 0..MaxRequired half millimetres
RequiredDiameters == {Rat(h, 2) : h \in 0..MaxRequired} \cup {Rat(-5, 2)}

NextCatalog ==
    \/ Fresh /\ \E d_calc \in RequiredDiameters : FindNearestStandard(d_calc)
    \/ Fresh /\ \E d_req_mm \in RequiredDiameters : SuggestedDiameter(d_req_mm)

\* Rounding of required diameters, below, inside and above the catalog.
SpecCatalog == InitStatics /\ [][NextCatalog]_vars

CatalogEntries == {STANDARD_DIAMETERS[i] : i \in 1..Len(STANDARD_DIAMETERS)}

\* C15: catalog rounding, as find_nearest_standard and as the rounding
\* inside optimize_shaft: for every required diameter d the result is the
\* smallest catalog entry >= d, or the catalog maximum when no entry is
\* >= d; the result is always a catalog entry.
C15_RoundsUpToCatalog ==
    (IsCall(call, "find_nearest_standard") \/ IsCall(call, "suggested_d")) =>
        LET d == call.args[1]
            atLeast == {e \in CatalogEntries : RatLeq(d, ToRat(e))}
        IN  /\ ret \in CatalogEntries
            /\ atLeast # {} => ret \in atLeast /\ \A e \in atLeast : ret <= e
            /\ atLeast = {} => \A e \in CatalogEntries : e <= ret

\* the optimizer's rounding was asked for 17.5 mm and gave 20
C15_Witness ==
    /\ IsCall(call, "suggested_d")
    /\ call.args[1] = Rat(35, 2)
    /\ ret = 20

(***************************************************************************)
(* The editor's session state and the shaft builder update_shaft_model.    *)
(* A feature is a dict {id, type, pos, props}; its id (a uuid4 string) is  *)
(* modelled by a number no other feature of the list has.  Positions are   *)
(* in millimetres.                                                         *)
(***************************************************************************)
Pulley(name, manual_forces, manual_torques) ==
    [kind |-> "Pulley", name |-> name, manual_forces |-> manual_forces,
     manual_torques |-> manual_torques]

DefaultProps(ftype) ==
    IF ftype = "Shoulder" THEN ("diameter" :> DefaultDiameter)
    ELSE IF ftype = "Spur Gear"
         THEN ("diameter" :> 100) @@ ("angle" :> 0) @@ ("power" :> 0) @@ ("rpm" :> 0) @@
              ("manual_fy" :> 0) @@ ("manual_fz" :> 0)
    ELSE IF ftype = "Pulley"
         THEN ("diameter" :> 100) @@ ("power" :> 0) @@ ("rpm" :> 0) @@
              ("manual_fy" :> 0) @@ ("manual_fz" :> 0) @@ ("manual_t" :> 0)
    ELSE IF ftype = "Radial Force" THEN ("mag" :> 100) @@ ("angle" :> 0)
    ELSE IF ftype = "Torque" THEN ("mag" :> 50) @@ ("type" :> "Mean")
    ELSE EmptyDict

\* str(uuid.uuid4()): an id that no feature of the list has
uuid4(features) ==
    CHOOSE id \in 1..(Len(features) + 1) :
        /\ \A i \in 1..Len(features) : features[i].id # id
        /\ \A smaller \in 1..(id - 1) : \E i \in 1..Len(features) : features[i].id = smaller

\* add_feature(ftype, pos): st.session_state.features.append(feat)
add_feature(sess, ftype, pos) ==
    [sess EXCEPT !.features =
        Append(@, [id |-> uuid4(@), type |-> ftype, pos |-> pos,
                   props |-> DefaultProps(ftype)])]

\* list.pop(idx): the 0-based index counted from the end when negative
PopIndex(features, idx) == IF idx < 0 THEN idx + Len(features) ELSE idx
PopInRange(features, idx) ==
    0 <= PopIndex(features, idx) /\ PopIndex(features, idx) < Len(features)

\* remove_feature(idx): st.session_state.features.pop(idx), idx in range
remove_feature(sess, idx) ==
    LET k == PopIndex(sess.features, idx) IN
    [sess EXCEPT !.features = SubSeq(@, 1, k) \o SubSeq(@, k + 2, Len(@))]

\* list.sort(key=lambda f: f['pos']): stable
RECURSIVE InsertByPos(_, _)
InsertByPos(sorted, f) ==
    IF sorted = << >> THEN <<f>>
    ELSE IF f.pos < sorted[1].pos THEN <<f>> \o sorted
    ELSE <<sorted[1]>> \o InsertByPos(Tail(sorted), f)
RECURSIVE SortByPos(_)
SortByPos(fs) ==
    IF fs = << >> THEN << >>
    ELSE InsertByPos(SortByPos(SubSeq(fs, 1, Len(fs) - 1)), fs[Len(fs)])

\* a call by keyword binds only the parameters the callee declares
KeywordsAccepted(keywords, parameters) == keywords \subseteq parameters
\* the fields of the dataclass Torque(Load)
TorqueParameters == {"name", "magnitude", "position"}

\* the shoulder loop: a node per valid shoulder, left = old, right = new
RECURSIVE AddShoulders(_, _, _)
AddShoulders(ns, valid_shoulders, current_diam) ==
    IF valid_shoulders = << >> THEN [nodes |-> ns, current_diam |-> current_diam]
    ELSE LET s == valid_shoulders[1]
             new_diam == DictGet(s.props, "diameter", DefaultDiameter)
         IN  AddShoulders(add_node(ns, s.pos, Some(current_diam), Some(new_diam), NoElement),
                          Tail(valid_shoulders), new_diam)

\* mag = sqrt(mfy**2 + mfz**2), ang = degrees(atan2(mfz, mfy)), for a force
\* along an axis; appended when mag > 1e-6
ManualForces(props, pos) ==
    LET mfy == DictGet(props, "manual_fy", 0)
        mfz == DictGet(props, "manual_fz", 0)
        mag == IF mfz = 0 THEN Abs(mfy) ELSE IF mfy = 0 THEN Abs(mfz)
               ELSE <<"sqrt_of_squares", Abs(mfy), Abs(mfz)>>
        ang == IF mfz = 0 THEN (IF mfy >= 0 THEN 0 ELSE 180)
               ELSE IF mfy = 0 THEN (IF mfz > 0 THEN 90 ELSE -90)
               ELSE <<"atan2_degrees", mfz, mfy>>
    IN  IF mfy = 0 /\ mfz = 0 THEN << >> ELSE <<RadialForce(mag, ang, pos)>>

\* the component loop: gears and pulleys within [0, total_len] become the
\* element of the node at their position.  The import math of the Spur Gear
\* branch makes math a local of update_shaft_model, bound (math_bound) once
\* that branch has run; the Pulley branch reads it at math.sqrt.
RECURSIVE AddComponents(_, _, _, _)
AddComponents(ns, comps, total_len, math_bound) ==
    IF comps = << >> THEN [nodes |-> ns, exception |-> "None"]
    ELSE LET c == comps[1] IN
         IF ~(0 <= c.pos /\ c.pos <= total_len)
         THEN AddComponents(ns, Tail(comps), total_len, math_bound)
         ELSE IF c.type = "Spur Gear"
         THEN AddComponents(add_node(ns, c.pos, None, None,
                                     SpurGear("Gear", ManualForces(c.props, c.pos))),
                            Tail(comps), total_len, TRUE)
         ELSE LET mt == DictGet(c.props, "manual_t", 0) IN
              IF ~math_bound
              THEN [nodes |-> ns, exception |-> "UnboundLocalError"]
              ELSE IF mt # 0 /\ ~KeywordsAccepted({"mean", "position"}, TorqueParameters)
              THEN [nodes |-> ns, exception |-> "TypeError"]
              ELSE AddComponents(
                      add_node(ns, c.pos, None, None,
                               Pulley("Pulley", ManualForces(c.props, c.pos),
                                      IF mt # 0 THEN <<Torque(mt, c.pos)>> ELSE << >>)),
                      Tail(comps), total_len, math_bound)

\* the load loop: shaft.forces.append(RadialForce(...)) and
\* shaft.torques.append(Torque(mean=..., position=pos))
RECURSIVE AppendLoads(_, _, _)
AppendLoads(fs, ts, loads) ==
    IF loads = << >> THEN [forces |-> fs, torques |-> ts, exception |-> "None"]
    ELSE LET l == loads[1] IN
         IF l.type = "Radial Force"
         THEN AppendLoads(Append(fs, RadialForce(DictGet(l.props, "mag", 100),
                                                 DictGet(l.props, "angle", 0), l.pos)),
                          ts, Tail(loads))
         ELSE IF ~KeywordsAccepted({"mean", "position"}, TorqueParameters)
              THEN [forces |-> fs, torques |-> ts, exception |-> "TypeError"]
              ELSE AppendLoads(fs, Append(ts, Torque(DictGet(l.props, "mag", 50), l.pos)),
                               Tail(loads))

\* the dict {'total_length': total_length}
Config(total_length) == ("total_length" :> total_length)

\* update_shaft_model(shaft, config): the shaft it leaves and the exception
\* it raises, if any.  config is a dict with the key total_length, or None:
\* shaft.reset() runs, then config['total_length'] raises TypeError.
update_shaft_model(sess, config) ==
    LET total_len == config["total_length"]
        start_diameter == Default(sess.start_diameter, DefaultDiameter)
        features == sess.features
        IsShoulder(f) == f.type = "Shoulder"
        IsValid(s) == 0 < s.pos /\ s.pos < total_len
        IsComponent(f) == f.type \in {"Spur Gear", "Pulley"}
        IsLoad(f) == f.type \in {"Radial Force", "Torque"}
        shoulders == SortByPos(SelectSeq(features, IsShoulder))
        valid_shoulders == SelectSeq(shoulders, IsValid)
        start == add_node(<< >>, 0, None, Some(start_diameter), NoElement)
        stepped == AddShoulders(start, valid_shoulders, start_diameter)
        ended == add_node(stepped.nodes, total_len, Some(stepped.current_diam), None,
                          NoElement)
        placed == AddComponents(ended, SelectSeq(features, IsComponent), total_len,
                                FALSE)
        loaded == IF placed.exception = "None"
                  THEN AppendLoads(<< >>, << >>, SelectSeq(features, IsLoad))
                  ELSE [forces |-> << >>, torques |-> << >>,
                        exception |-> placed.exception]
        pos_a == Default(sess.bearing_a_pos, 0)
        pos_b == Default(sess.bearing_b_pos, total_len)
    IN  IF config = None
        THEN [nodes |-> << >>, forces |-> << >>, torques |-> << >>,
              exception |-> "TypeError"]
        ELSE IF loaded.exception # "None"
        THEN [nodes |-> placed.nodes, forces |-> loaded.forces,
              torques |-> loaded.torques, exception |-> loaded.exception]
        ELSE [nodes |-> add_node(add_node(placed.nodes, pos_a, None, None,
                                          Bearing("Bearing A")),
                                 pos_b, None, None, Bearing("Bearing B")),
              forces |-> loaded.forces, torques |-> loaded.torques,
              exception |-> "None"]

(***************************************************************************)
(* render_editor(shaft, config).  What the user did in the browser since   *)
(* the last run is the record entered: for a number_input the value typed, *)
(* or None when the widget was left alone and returns its value argument;  *)
(* for the Add button the type and position chosen, or None; for the       *)
(* delete buttons the number of the feature whose button was clicked, or 0.*)
(***************************************************************************)
\* the number_inputs drawn for a feature of each type: the props key each
\* one stores and the default of its props.get(key, default)
PropWidgets(ftype) ==
    IF ftype = "Shoulder" THEN ("diameter" :> DefaultDiameter)
    ELSE IF ftype = "Spur Gear"
         THEN ("diameter" :> 100) @@ ("width" :> 20) @@ ("angle" :> 0) @@
              ("manual_fy" :> 0) @@ ("manual_fz" :> 0)
    ELSE IF ftype = "Pulley"
         THEN ("diameter" :> 100) @@ ("width" :> 20) @@ ("manual_fy" :> 0) @@
              ("manual_fz" :> 0) @@ ("manual_t" :> 0)
    ELSE IF ftype = "Radial Force" THEN ("mag" :> 100) @@ ("angle" :> 0)
    ELSE IF ftype = "Torque" THEN ("mag" :> 50)
    ELSE EmptyDict

\* one feature of the list: feat['pos'] and every props[key] are stored
\* with what their number_input returns
RenderFeature(feat, pos, props) ==
    LET widgets == PropWidgets(feat.type) IN
    [feat EXCEPT
        !.pos = Default(pos, feat.pos),
        !.props = [key \in DOMAIN feat.props \cup DOMAIN widgets |->
                      IF key \notin DOMAIN widgets THEN feat.props[key]
                      ELSE IF key \in DOMAIN props THEN props[key]
                      ELSE DictGet(feat.props, key, widgets[key])]]

\* the loop over the features from feature i on; the delete button of a
\* feature calls remove_feature and st.rerun(), which ends the run
RECURSIVE RenderFeatures(_, _, _)
RenderFeatures(sess, i, entered) ==
    IF i > Len(sess.features) THEN [session |-> sess, rerun |-> FALSE]
    ELSE IF entered.delete = i
    THEN [session |-> remove_feature(sess, i - 1), rerun |-> TRUE]
    ELSE RenderFeatures(
            [sess EXCEPT !.features[i] = RenderFeature(@, entered.pos[i], entered.props[i])],
            i + 1, entered)

\* the session state render_editor leaves for config['total_length'] =
\* total_length: the start diameter, then the Add button (add_feature and
\* st.rerun()), the feature list, and the two bearing positions
render_editor(sess, total_length, entered) ==
    LET started ==
            [sess EXCEPT !.start_diameter =
                Some(Default(entered.start_diameter, Default(@, DefaultDiameter)))]
        listed == RenderFeatures(started, 1, entered)
    IN  IF ~IsNone(entered.add)
        THEN add_feature(started, Val(entered.add)[1], Val(entered.add)[2])
        ELSE IF listed.rerun THEN listed.session
        ELSE [listed.session EXCEPT
                !.bearing_a_pos = Some(Default(entered.bearing_a, Default(@, 0))),
                !.bearing_b_pos = Some(Default(entered.bearing_b, Default(@, total_length)))]

(***************************************************************************)
(* render_sidebar(shaft) (src/ui/sidebar.py): the shaft is regenerated     *)
(* from the sidebar's widgets.  entered holds what the widgets return: the *)
(* number of sections, the start diameter, the length and the shoulder     *)
(* checkbox of each section, the forces and torques listed, and the two    *)
(* bearing positions (None: the input is left at its value).  The function *)
(* has no return statement.  shaft.material is not part of the state.      *)
(***************************************************************************)
\* get_next_standard_diameter(current_d, step_up)
get_next_standard_diameter(current_d, step_up) ==
    LET sorted_d == {STANDARD_DIAMETERS[i] : i \in 1..Len(STANDARD_DIAMETERS)}
        above == {d \in sorted_d : d > current_d}
        below == {d \in sorted_d : d < current_d}
    IN  IF step_up
        THEN IF above = {} THEN current_d
             ELSE CHOOSE d \in above : \A e \in above : d <= e
        ELSE IF below = {} THEN current_d
             ELSE CHOOSE d \in below : \A e \in below : e <= d

\* the loop over the sections from section i (0-based) on: a node at the
\* end of each section, left = this section's diameter, right = the next
RECURSIVE AddSections(_, _, _, _, _)
AddSections(ns, i, current_pos, current_diameter, entered) ==
    IF i >= entered.num_sections
    THEN [nodes |-> ns, current_pos |-> current_pos]
    ELSE LET is_step_up == 2 * (i + 1) <= entered.num_sections
             next_diameter ==
                IF entered.has_shoulder[i + 1]
                THEN get_next_standard_diameter(current_diameter, is_step_up)
                ELSE current_diameter
             end == current_pos + entered.length[i + 1]
         IN  AddSections(add_node(ns, end, Some(current_diameter), Some(next_diameter),
                                  NoElement),
                         i + 1, end, next_diameter, entered)

\* the shaft render_sidebar leaves
render_sidebar(entered) ==
    LET start == add_node(<< >>, 0, None, Some(entered.start_diameter), NoElement)
        sections == AddSections(start, 0, 0, entered.start_diameter, entered)
        pos_a == Default(entered.pos_a, 0)
        pos_b == Default(entered.pos_b, sections.current_pos)
    IN  [nodes |-> add_node(add_node(sections.nodes, pos_a, None, None,
                                     Bearing("Bearing A")),
                            pos_b, None, None, Bearing("Bearing B")),
         forces |-> entered.forces, torques |-> entered.torques]

RenderSidebar(entered) ==
    LET built == render_sidebar(entered) IN
    /\ nodes' = built.nodes
    /\ forces' = built.forces
    /\ torques' = built.torques
    /\ call' = [op |-> "render_sidebar", args |-> <<entered>>]
    /\ ret' = None
    /\ UNCHANGED <<grid, session, opt>>

\* every widget of the sidebar at its default: three sections of 100 mm
\* without shoulders, start diameter STANDARD_DIAMETERS[4] of the code
\* (20 mm), no loads
SidebarDefaults ==
    [num_sections |-> 3, start_diameter |-> STANDARD_DIAMETERS[5],
     length |-> <<100, 100, 100>>, has_shoulder |-> <<FALSE, FALSE, FALSE>>,
     forces |-> << >>, torques |-> << >>, pos_a |-> None, pos_b |-> None]

(***************************************************************************)
(* Calls of the editor.                                                    *)
(***************************************************************************)
MaxFeatures == 2    \* length of st.session_state.features

AddFeature(ftype, pos) ==
    /\ Len(session.features) < MaxFeatures
    /\ session' = add_feature(session, ftype, pos)
    /\ call' = [op |-> "add_feature", args |-> <<ftype, pos>>]
    /\ ret' = None
    /\ UNCHANGED <<nodes, forces, torques, grid, opt>>

\* remove_feature(idx); list.pop raises IndexError out of range
RemoveFeature(idx) ==
    /\ session' = IF PopInRange(session.features, idx)
                  THEN remove_feature(session, idx) ELSE session
    /\ call' = [op |-> "remove_feature", args |-> <<idx>>]
    /\ ret' = [exception |-> IF PopInRange(session.features, idx) THEN "None"
                             ELSE "IndexError",
               value |-> None]
    /\ UNCHANGED <<nodes, forces, torques, grid, opt>>

\* a number_input is given min_value <= value <= max_value
WithinInput(pos, total_length) == 0 <= pos /\ pos <= total_length

\* one run of render_editor; the positions shown and entered are within
\* [0, total_length], as the position inputs require
RenderEditor(total_length, entered) ==
    /\ Len(entered.pos) = Len(session.features)
    /\ Len(entered.props) = Len(session.features)
    /\ ~IsNone(entered.add) =>
            /\ Len(session.features) < MaxFeatures
            /\ WithinInput(Val(entered.add)[2], total_length)
    /\ IsNone(entered.add) =>
            \A i \in 1..Len(session.features) :
                (entered.delete = 0 \/ i <= entered.delete) =>
                    /\ WithinInput(session.features[i].pos, total_length)
                    /\ WithinInput(Default(entered.pos[i], 0), total_length)
    /\ session' = render_editor(session, total_length, entered)
    /\ call' = [op |-> "render_editor", args |-> <<total_length, entered>>]
    /\ ret' = None
    /\ UNCHANGED <<nodes, forces, torques, grid, opt>>

\* the user did nothing: every widget of the n features returns its value
Untouched(n) ==
    [start_diameter |-> None, add |-> None, delete |-> 0,
     pos |-> [i \in 1..n |-> None], props |-> [i \in 1..n |-> EmptyDict],
     bearing_a |-> None, bearing_b |-> None]

UpdateShaftModel(config) ==
    LET built == update_shaft_model(session, config) IN
    /\ nodes' = built.nodes
    /\ forces' = built.forces
    /\ torques' = built.torques
    /\ call' = [op |-> "update_shaft_model", args |-> <<config>>]
    /\ ret' = [exception |-> built.exception, value |-> None]
    /\ UNCHANGED <<grid, session, opt>>

(***************************************************************************)
(* optimize_shaft(shaft, safety_factor, max_iterations), one step per      *)
(* pass of its for loop.  opt holds the loop's position and locals while   *)
(* the call runs; the step that ends the call puts its outcome in ret:     *)
(* the exception raised or the dict returned, with the number of passes    *)
(* entered and of calculate_diagrams calls made.                           *)
(***************************************************************************)
DefaultSafetyFactor == 2       \* safety_factor: float = 2.0
DefaultMaxIterations == 5      \* max_iterations: int = 5
ExpectedArrays == 6            \* x, V, Ma, Mm, Ta, Tm = calculate_diagrams(...)

\* the parameters of calculate_min_diameter
MinDiameterParameters ==
    {"moment_amp", "torque_mean", "Sut", "Sy", "moment_mean", "torque_amp", "Kf",
     "Kfs", "n", "fatigue_config", "se_overwrite"}
\* the keywords optimize_shaft calls it with
MinDiameterKeywords ==
    {"moment_amp", "torque_avg", "moment_mean", "torque_amp", "Sut", "Sy", "n",
     "se_overwrite"}

\* a loop test that admits one pass more than range(max_iterations)
InRangeInclusive(iteration, max_iterations) == iteration <= max_iterations

\* for iteration in range(max_iterations)
InRange(iteration, max_iterations) == iteration < max_iterations

\* shaft.get_segments(): the pairs of consecutive nodes
get_segments(ns) ==
    IF Len(ns) < 2 THEN << >>
    ELSE [i \in 1..(Len(ns) - 1) |-> [start_node |-> ns[i], end_node |-> ns[i + 1]]]

\* np.any((x >= start_pos) & (x <= end_pos))
AnySample(x, segment) ==
    \E i \in 1..Len(x) :
        /\ SampleGeq(x[i], segment.start_node.position)
        /\ SampleLeq(x[i], segment.end_node.position)

\* One pass of the loop body on the current shaft, as far as it gets:
\*   "ValueError"       the tuple of calculate_diagrams does not unpack into
\*                      the six names of line 30;
\*   "analysis_failed"  len(x) == 0, the failure dict is returned;
\*   "TypeError"        a segment holds a sample and calculate_min_diameter
\*                      is called with a keyword it does not declare;
\*   "converged"        no segment holds a sample: zone_reqs stays empty,
\*                      changes_made stays False, the loop breaks.
\* The statements after calculate_min_diameter (rounding, zone maxima, the
\* updates of the session diameters and the rebuild) run only once that
\* call has returned, which it does for no segment.
iteration_body(ns, fs, ts) ==
    LET result == calculate_diagrams(ns, fs, ts, DefaultNumPoints) IN
    IF Len(result) # ExpectedArrays THEN "ValueError"
    ELSE LET x == result[1]
             segments == get_segments(ns)
         IN  IF Len(x) = 0 THEN "analysis_failed"
             ELSE IF \E k \in 1..Len(segments) :
                        /\ AnySample(x, segments[k])
                        /\ ~KeywordsAccepted(MinDiameterKeywords, MinDiameterParameters)
                  THEN "TypeError"
                  ELSE "converged"

Running == opt.pc = "loop"

\* the call: iteration_log = [] and the loop is entered
OptimizeShaft(safety_factor, max_iterations) ==
    /\ ~Running
    /\ opt' = [pc |-> "loop", iteration |-> 0, iteration_log |-> << >>,
               solver_runs |-> 0, exit |-> "none"]
    /\ call' = [op |-> "optimize_shaft", args |-> <<safety_factor, max_iterations>>]
    /\ ret' = None
    /\ UNCHANGED <<nodes, forces, torques, grid, session>>

\* zone_reqs when the last pass ended: None when the pass did not get to
\* 'zone_reqs = {}' (line 54), else the dict, which has no entry because no
\* segment gets past the call of calculate_min_diameter
zone_reqs(end) ==
    IF end \in {"TypeError", "converged"} THEN Some(EmptyDict) ELSE None

\* a return after the loop that reports the run as failed
FailureResult(iteration_log) == [success |-> FALSE, log |-> iteration_log]

\* return {"success": True, "log": iteration_log}, the one return after the
\* loop, reached when the loop runs out and when a pass breaks out of it
SuccessResult(iteration_log) == [success |-> TRUE, log |-> iteration_log]

\* what the call leaves in ret when it ends
Outcome(exception, value, exit, iterations, solver_runs, reqs) ==
    [exception |-> exception, value |-> value, exit |-> exit,
     iterations |-> iterations, solver_runs |-> solver_runs, zone_reqs |-> reqs]

\* the loop test and, when it admits the pass, the pass
OptimizeIteration ==
    /\ Running
    /\ LET max_iterations == Default(call.args[2], DefaultMaxIterations)
           runs == opt.solver_runs + 1
           passes == opt.iteration + 1
       IN  IF ~InRange(opt.iteration, max_iterations)
           THEN ret' = Outcome("None", SuccessResult(opt.iteration_log),
                               "exhausted", opt.iteration, opt.solver_runs, None)
           ELSE \E end \in {iteration_body(nodes, forces, torques)} :
                  ret' =
                    IF end \in {"ValueError", "TypeError"}
                    THEN Outcome(end, None, "exception", passes, runs, zone_reqs(end))
                    ELSE IF end = "analysis_failed"
                    THEN Outcome("None",
                                 [success |-> FALSE, message |-> "Analysis failed to run."],
                                 end, passes, runs, zone_reqs(end))
                    ELSE Outcome("None", SuccessResult(opt.iteration_log),
                                 end, passes, runs, zone_reqs(end))
    /\ opt' = IdleOpt
    /\ UNCHANGED <<nodes, forces, torques, grid, session, call>>

FeatureTypes == {"Shoulder", "Radial Force", "Torque"}
FeaturePositions == {250}
SupportPositions == {600}
TotalLengths == {0, 500}
OptimizeIterations == {None, Some(0), Some(1), Some(2)}

\* what the user enters before a run: nothing, a click on Add, or a
\* position of bearing B
OptimizeEntries(n) ==
    {Untouched(n)}
        \cup {[Untouched(n) EXCEPT !.add = Some(<<ftype, pos>>)] :
                 ftype \in FeatureTypes, pos \in FeaturePositions}
        \cup {[Untouched(n) EXCEPT !.bearing_b = Some(pos)] : pos \in SupportPositions}

\* what render_sidebar is given: the defaults, shoulders after the first
\* and the last of the three sections, one force, one torque
SidebarEntries ==
    {[SidebarDefaults EXCEPT !.has_shoulder = h, !.forces = f, !.torques = t] :
        h \in {<<FALSE, FALSE, FALSE>>, <<TRUE, FALSE, TRUE>>},
        f \in {<< >>, <<RadialForce(100, 0, 0)>>},
        t \in {<< >>, <<Torque(50, 0)>>}}

\* the config app.py passes on: what render_sidebar returned, which is
\* None, or a dict with the total length
Configs == {None} \cup {Config(total_len) : total_len \in TotalLengths}

\* app.py runs render_sidebar and update_shaft_model before it calls
\* optimize_shaft; while optimize_shaft runs nothing else does.
NextOptimize ==
    \/ ~Running /\ \E total_length \in TotalLengths,
                       entered \in OptimizeEntries(Len(session.features)) :
                      RenderEditor(total_length, entered)
    \/ ~Running /\ \E entered \in SidebarEntries : RenderSidebar(entered)
    \/ ~Running /\ \E config \in Configs : UpdateShaftModel(config)
    \/ IsCall(call, "update_shaft_model") /\
          \E max_iterations \in OptimizeIterations :
              OptimizeShaft(Some(DefaultSafetyFactor), max_iterations)
    \/ OptimizeIteration

\* The editor and the optimizer on one session.
SpecOptimize == InitStatics /\ [][NextOptimize]_vars

IsOptimizeDone == IsCall(call, "optimize_shaft") /\ ~Running
MaxIterationsOf(c) == Default(c.args[2], DefaultMaxIterations)

(***************************************************************************)
(* Properties of optimize_shaft, checked under SpecOptimize.                *)
(***************************************************************************)
\* the first array calculate_diagrams returns for the current shaft
SampleArray == calculate_diagrams(nodes, forces, torques, DefaultNumPoints)[1]

\* C16: optimize_shaft always terminates, and it runs the statics solver at
\* most max_iterations times, once in every pass of its loop, whatever the
\* geometry and the loads: every step of a running call ends the call or
\* moves on to the next pass, the pass counter never exceeds max_iterations,
\* and the solver has run once per pass entered.
C16_TerminatesWithinMaxIterations ==
    /\ [](Running => /\ opt.iteration <= MaxIterationsOf(call)
                     /\ opt.solver_runs = opt.iteration)
    /\ [][Running => \/ ~Running'
                     \/ /\ opt'.iteration = opt.iteration + 1
                        /\ opt'.iteration <= MaxIterationsOf(call)
                        /\ call' = call]_vars
    /\ [](IsOptimizeDone => /\ ret.solver_runs <= MaxIterationsOf(call)
                            /\ ret.solver_runs = ret.iterations)

\* a call with max_iterations = 2 on a loaded shaft on two bearings has ended
\* after one solver run
C16_Witness ==
    /\ IsOptimizeDone
    /\ call.args[2] = Some(2)
    /\ BearingCount = 2 /\ Len(forces) > 0
    /\ ret.solver_runs = 1

\* C17: optimize_shaft returns a structured result and never propagates an
\* exception: success=False with a message exactly when the statics solver
\* returned empty sample arrays, success=True with a log in every other case.
C17_StructuredResult ==
    IsOptimizeDone =>
        /\ ret.exception = "None"
        /\ ret.value.success = FALSE <=> (ret.solver_runs > 0 /\ Len(SampleArray) = 0)
        /\ IF ret.value.success THEN "log" \in DOMAIN ret.value
                                ELSE "message" \in DOMAIN ret.value

\* no load on a shaft the solver can solve: every zone needs the smallest
\* catalog diameter, which no diameter is below
Unloaded ==
    /\ forces = << >> /\ torques = << >>
    /\ BearingCount = 2
    /\ get_total_length(nodes) > 0
    /\ \A i \in 1..Len(nodes) :
          /\ nodes[i].diameter_left >= STANDARD_DIAMETERS[1]
          /\ nodes[i].diameter_right >= STANDARD_DIAMETERS[1]

\* C18: optimize_shaft called (with at least one iteration allowed) on an
\* already converged shaft, no zone diameter below its requirement, returns
\* success=True with an empty log, having stopped in its first pass at the
\* convergence test.
C18_ConvergedShaftIsLeftAlone ==
    (IsOptimizeDone /\ MaxIterationsOf(call) >= 1 /\ Unloaded) =>
        /\ ret.exception = "None"
        /\ ret.value = [success |-> TRUE, log |-> << >>]
        /\ ret.iterations = 1
        /\ ret.exit = "converged"

ExhaustedRunMadeNoPass ==
    (IsOptimizeDone /\ ret.exit = "exhausted") => ret.iterations = 0

\* the session with every zone diameter set to d
WithDiameters(sess, d) ==
    [sess EXCEPT !.start_diameter = Some(d),
                 !.features = [k \in 1..Len(@) |->
                      IF @[k].type = "Shoulder"
                      THEN [@[k] EXCEPT !.props = ("diameter" :> d)] ELSE @[k]]]
Positions(ns) == [i \in 1..Len(ns) |-> ns[i].position]

\* C20: the optimizer changes only diameters.  The rebuild it makes after
\* an update of the zone diameters, update_shaft_model with the shaft's own
\* total length, leaves the node positions, the total length and the force
\* and torque lists of the shaft as they were.
C20_RebuildKeepsPositionsAndLoads ==
    (IsCall(call, "update_shaft_model") /\ ret.exception = "None") =>
        \A d \in {DefaultDiameter, STANDARD_DIAMETERS[7]} :
            LET rebuilt == update_shaft_model(WithDiameters(session, d),
                                              Config(get_total_length(nodes)))
            IN  /\ rebuilt.exception = "None"
                /\ Positions(rebuilt.nodes) = Positions(nodes)
                /\ get_total_length(rebuilt.nodes) = get_total_length(nodes)
                /\ rebuilt.forces = forces
                /\ rebuilt.torques = torques

(***************************************************************************)
(* macaulay(x, a, n) as a function of its own: arrays of up to MaxSamples  *)
(* samples, singularities at whole positions, powers -1..3.                *)
(***************************************************************************)
MaxSamples == 2     \* length of the array x passed to macaulay

Macaulay(x, a, n) ==
    /\ ret' = macaulay(x, a, n)
    /\ call' = [op |-> "macaulay", args |-> <<x, a, n>>]
    /\ UNCHANGED <<nodes, forces, torques, grid, session, opt>>

MacaulaySamples == {Zero, Rat(1, 2), One, ToRat(2)}
MacaulayArrays == UNION {[1..len -> MacaulaySamples] : len \in 0..MaxSamples}
MacaulaySingularities == {0, 1, 2}
MacaulayPowers == {-1, 0, 1, 2, 3}

NextMacaulay ==
    Fresh /\ \E x \in MacaulayArrays, a \in MacaulaySingularities, n \in MacaulayPowers :
                Macaulay(x, a, n)

SpecMacaulay == InitStatics /\ [][NextMacaulay]_vars

\* C22: for every sample x[i] of macaulay(x, a, n) the result is 0 when
\* x[i] < a, and otherwise 1 for n = 0, x[i] - a for n = 1 and
\* (x[i] - a)^n for n >= 2; so the n = 0 bracket is 1 and the n = 1 bracket
\* is 0 at x[i] = a.
C22_MacaulayBracket ==
    IsCall(call, "macaulay") =>
        LET x == call.args[1]
            a == ToRat(call.args[2])
            n == call.args[3]
        IN  /\ Len(ret) = Len(x)
            /\ \A i \in 1..Len(x) :
                  /\ RatLess(x[i], a) => ret[i] = Zero
                  /\ ~RatLess(x[i], a) =>
                        /\ n = 0 => ret[i] = One
                        /\ n = 1 => ret[i] = RatSub(x[i], a)
                        /\ n >= 2 => ret[i] = RatPow(RatSub(x[i], a), n)
                  /\ x[i] = a /\ n = 0 => ret[i] = One
                  /\ x[i] = a /\ n = 1 => ret[i] = Zero

\* the step bracket on an array with a sample before the singularity and
\* one on it
C22_Witness ==
    /\ IsCall(call, "macaulay")
    /\ call.args = << <<Zero, One>>, 1, 0 >>
    /\ ret = <<Zero, One>>

(***************************************************************************)
(* The reactions that calculate_diagrams superposes, checked under         *)
(* SpecStatics.                                                            *)
(***************************************************************************)
\* the reactions of the two bearings in one plane (1: fy, 2: fz), computed
\* from the balance of moments about bearing A and of forces
BearingReactions(plane) ==
    LET b == BearingNodes(nodes)
        pos_A == b[1].position
        L_span == b[2].position - pos_A
        Rb == ReactionB(IF plane = 1 THEN MomentFyAbout(pos_A) ELSE MomentFzAbout(pos_A),
                        L_span)
    IN  [A |-> ReactionA(Rb, IF plane = 1 THEN SumFy ELSE SumFz), B |-> Rb]

\* the shear of one plane at sample xi with bearing A's reaction at pos_A
\* and bearing B's reaction at pos_B
ShearWithOwnReactions(xi, plane) ==
    LET b == BearingNodes(nodes)
        r == BearingReactions(plane)
        comp == [k \in 1..Len(forces) |->
                    IF plane = 1 THEN fy(forces[k]) ELSE fz(forces[k])]
    IN  Superpose(xi, r.A, b[1].position, r.B, b[2].position, comp, forces, 0)

\* C29: for any two bearing elements, equal names included, the shear
\* calculate_diagrams returns is the one with bearing A's reaction applied
\* at pos_A and bearing B's reaction applied at pos_B.
C29_EachBearingItsOwnReaction ==
    (IsDiagrams(call) /\ BearingCount = 2 /\ get_total_length(nodes) # 0) =>
        \A i \in 1..Len(ret[1]) :
            ret[2][i] = Hypot(ShearWithOwnReactions(ret[1][i], 1),
                              ShearWithOwnReactions(ret[1][i], 2))

\* C27: on a shaft whose first node is at 0, with exactly two bearings and
\* every force within [0, L], the diagrams close: at the last sample x = L
\* the total shear and the resultant bending moment are zero, and the
\* bending moment is zero at x = 0.
C27_DiagramsClose ==
    LET L == get_total_length(nodes) IN
    (/\ IsDiagrams(call)
     /\ BearingCount = 2
     /\ L # 0
     /\ nodes[1].position = 0
     /\ \A k \in 1..Len(forces) : 0 <= forces[k].position /\ forces[k].position <= L
     /\ call.args[1] >= 2) =>
        LET last == Len(ret[1]) IN
        /\ ret[1][last] = ToRat(L)
        /\ ret[2][last] = Zero
        /\ ret[3][last] = Zero
        /\ ret[1][1] = Zero
        /\ ret[3][1] = Zero

(***************************************************************************)
(* The zones of optimize_shaft: get_controlling_source, the closure of     *)
(* lines 61-76 over the sorted shoulders of the session.                   *)
(***************************************************************************)
\* s['pos'] <= pos + 1e-5, positions in units of 1/grid mm
AtOrBefore(s, pos) == (s.pos - pos) * TolInv <= grid

\* a scan that keeps the first shoulder at or before pos
RECURSIVE FirstCandidate(_, _, _)
FirstCandidate(shoulders, pos, candidate) ==
    IF shoulders = << >> THEN candidate
    ELSE IF AtOrBefore(shoulders[1], pos)
         THEN FirstCandidate(Tail(shoulders), pos,
                             IF IsNone(candidate) THEN Some(shoulders[1]) ELSE candidate)
         ELSE candidate

\* for s in shoulders: candidate = s while s['pos'] <= pos + 1e-5, else break
RECURSIVE LastCandidate(_, _, _)
LastCandidate(shoulders, pos, candidate) ==
    IF shoulders = << >> THEN candidate
    ELSE IF AtOrBefore(shoulders[1], pos)
         THEN LastCandidate(Tail(shoulders), pos, Some(shoulders[1]))
         ELSE candidate

\* the feature id is returned as <<id>>, the string "START" as itself
get_controlling_source(shoulders, pos) ==
    IF shoulders = << >> \/ pos < shoulders[1].pos THEN "START"
    ELSE LET candidate == LastCandidate(shoulders, pos, None) IN
         IF ~IsNone(candidate) THEN <<Val(candidate).id>> ELSE "START"

\* shoulders = [f for f in features if f['type'] == 'Shoulder'], sorted by pos
SortedShoulders(features) ==
    LET IsShoulder(f) == f.type = "Shoulder" IN SortByPos(SelectSeq(features, IsShoulder))

\* get_controlling_source(pos) with the features of the session
GetControllingSource(features, pos) ==
    /\ ret' = get_controlling_source(SortedShoulders(features), pos)
    /\ call' = [op |-> "get_controlling_source", args |-> <<features, pos>>]
    /\ UNCHANGED <<nodes, forces, torques, grid, session, opt>>

MaxListed == 2      \* length of the feature list get_controlling_source sees

\* positions on the grid of 1/150000 mm: the tolerance 1e-5 mm is 1.5 steps
SourcePositions == 0..4
SourceTypes == {"Shoulder", "Spur Gear"}
SourceFeatures ==
    UNION {{[i \in 1..len |-> [id |-> i, type |-> t[i], pos |-> p[i],
                               props |-> DefaultProps(t[i])]] :
              t \in [1..len -> SourceTypes], p \in [1..len -> SourcePositions]} :
           len \in 0..MaxListed}

NextSource ==
    Fresh /\ \E features \in SourceFeatures, pos \in SourcePositions :
                GetControllingSource(features, pos)

SpecSource == Init /\ [][NextSource]_vars

\* C23: the controlling zone of a segment starting at pos is START when
\* there are no shoulders or pos is before the first shoulder, and otherwise
\* a shoulder that is at or before pos (tolerance 1e-5 mm) and has the
\* greatest position of all such shoulders.
C23_ControllingSource ==
    IsCall(call, "get_controlling_source") =>
        LET features == call.args[1]
            pos == call.args[2]
            S == {i \in 1..Len(features) : features[i].type = "Shoulder"}
            Within(i) == (features[i].pos - pos) * TolInv <= grid
        IN  IF S = {} \/ \A i \in S : pos < features[i].pos
            THEN ret = "START"
            ELSE \E i \in S :
                    /\ ret = <<features[i].id>>
                    /\ Within(i)
                    /\ \A j \in S : Within(j) => features[j].pos <= features[i].pos

\* two shoulders at or before the start of the segment: the later one
\* controls, found within the tolerance
C23_Witness ==
    /\ IsCall(call, "get_controlling_source")
    /\ Len(call.args[1]) = 2
    /\ call.args[1][1].type = "Shoulder" /\ call.args[1][1].pos = 2
    /\ call.args[1][2].type = "Shoulder" /\ call.args[1][2].pos = 0
    /\ call.args[2] = 1
    /\ ret = <<1>>

(***************************************************************************)
(* The zones of the shaft that update_shaft_model builds.  The session is  *)
(* edited by runs of render_editor and calls of its helpers, then the      *)
(* shaft is built.                                                         *)
(***************************************************************************)
\* ShaftSegment.diameter
diameter(segment) == segment.start_node.diameter_right

MaxZoneFeatures == 2    \* length of st.session_state.features in the zone runs

ZoneTypes == {"Shoulder", "Spur Gear", "Pulley"}
ZonePositions == {0, 250, 500}
ZoneStartDiameters == {30}
ZoneShoulderDiameters == {40}
ZoneSupports == {100}
ZoneLengths == {500}
RemoveIndexes == 0..1

\* what the user enters before a run: nothing, a start diameter, a click on
\* a delete button, the diameter of a shoulder, or a position of bearing A
ZoneEntries(features) ==
    LET n == Len(features) IN
    {Untouched(n)}
        \cup {[Untouched(n) EXCEPT !.start_diameter = Some(d)] : d \in ZoneStartDiameters}
        \cup {[Untouched(n) EXCEPT !.delete = i] : i \in 1..n}
        \cup {[Untouched(n) EXCEPT !.props[i] = ("diameter" :> d)] :
                 i \in {j \in 1..n : features[j].type = "Shoulder"},
                 d \in ZoneShoulderDiameters}
        \cup {[Untouched(n) EXCEPT !.bearing_a = Some(pos)] : pos \in ZoneSupports}

Unbuilt == nodes = << >>

NextZones ==
    \/ Unbuilt /\ Len(session.features) < MaxZoneFeatures /\
          \E ftype \in ZoneTypes, pos \in ZonePositions : AddFeature(ftype, pos)
    \/ Unbuilt /\ \E idx \in RemoveIndexes : RemoveFeature(idx)
    \/ Unbuilt /\ \E total_length \in ZoneLengths, entered \in ZoneEntries(session.features) :
          RenderEditor(total_length, entered)
    \/ \E total_len \in ZoneLengths : UpdateShaftModel(Config(total_len))

SpecZones == InitStatics /\ [][NextZones]_vars

\* the shoulders that update_shaft_model turns into nodes
ValidShoulders(features, total_len) ==
    {i \in 1..Len(features) :
        /\ features[i].type = "Shoulder"
        /\ 0 < features[i].pos /\ features[i].pos < total_len}

\* the diameters the zone holding position p may have: the start diameter
\* before the first valid shoulder, else the diameter of a valid shoulder
\* with the greatest position at or before p
ZoneDiameters(sess, total_len, p) ==
    LET V == ValidShoulders(sess.features, total_len)
        B == {i \in V : sess.features[i].pos <= p}
    IN  IF B = {} THEN {Default(sess.start_diameter, DefaultDiameter)}
        ELSE {sess.features[i].props["diameter"] :
                i \in {j \in B : \A k \in B : sess.features[k].pos <= sess.features[j].pos}}

\* C21: in the shaft built by update_shaft_model every segment has the
\* diameter of the source of its zone (the start diameter or a shoulder),
\* the segments that begin at gear, pulley or bearing nodes inside the zone
\* included.
C21_ZoneHasConstantDiameter ==
    (IsCall(call, "update_shaft_model") /\ ret.exception = "None") =>
        LET segments == get_segments(nodes) IN
        \A k \in 1..Len(segments) :
            diameter(segments[k]) \in
                ZoneDiameters(session, call.args[1]["total_length"],
                              segments[k].start_node.position)

\* C26: the zones of optimize_shaft agree with those of the builder: for
\* every segment of the shaft built by update_shaft_model, the source that
\* get_controlling_source selects is START or a shoulder that
\* update_shaft_model turned into a node (0 < pos < total_length), so an
\* update of that source reaches the segments of the zone.
C26_SourcesAreBuiltShoulders ==
    (IsCall(call, "update_shaft_model") /\ ret.exception = "None") =>
        LET segments == get_segments(nodes)
            shoulders == SortedShoulders(session.features)
        IN  \A k \in 1..Len(segments) :
                LET source_id ==
                        get_controlling_source(shoulders, segments[k].start_node.position)
                IN  \/ source_id = "START"
                    \/ \E i \in ValidShoulders(session.features, call.args[1]["total_length"]) :
                          source_id = <<session.features[i].id>>

(***************************************************************************)
(* The passes of optimize_shaft: requirements, updates and the log,        *)
(* checked under SpecOptimize.                                             *)
(***************************************************************************)
NoShoulders == \A i \in 1..Len(session.features) : session.features[i].type # "Shoulder"

\* C24: in each pass a required diameter is computed for every existing
\* segment and the requirement of a zone is the largest rounded requirement
\* of its segments: when a pass has run on a shaft of non-zero length,
\* zone_reqs holds a catalog diameter for the controlling source of every
\* segment, and on an unloaded shaft that is the smallest catalog diameter.
C24_EverySegmentCounts ==
    (IsOptimizeDone /\ ret.iterations >= 1 /\ get_total_length(nodes) # 0) =>
        /\ ~IsNone(ret.zone_reqs)
        /\ LET segments == get_segments(nodes)
               shoulders == SortedShoulders(session.features)
               reqs == Val(ret.zone_reqs)
           IN  \A k \in 1..Len(segments) :
                   LET source_id ==
                          get_controlling_source(shoulders,
                                                 segments[k].start_node.position)
                   IN  /\ source_id \in DOMAIN reqs
                       /\ reqs[source_id] \in CatalogEntries
                       /\ Unloaded => reqs[source_id] = STANDARD_DIAMETERS[1]

\* C25: a zone's diameter is updated exactly when its requirement differs
\* from its current value by more than 1e-3 mm, and every update appends
\* one log entry.  On an unloaded shaft without shoulders whose start
\* diameter is not the smallest catalog diameter, the one zone (START) is
\* updated once, to that diameter, and the returned log has one entry; when
\* the start diameter is that diameter already, the log is empty.
C25_UpdatesAreLogged ==
    (IsOptimizeDone /\ ret.iterations >= 1 /\ Unloaded /\ NoShoulders /\ Len(nodes) = 2) =>
        /\ ret.exception = "None"
        /\ "log" \in DOMAIN ret.value
        /\ session.start_diameter = Some(STANDARD_DIAMETERS[1])
        /\ Len(ret.value.log) =
              IF nodes[1].diameter_right = STANDARD_DIAMETERS[1] THEN 0 ELSE 1

\* C28 (the successive values optimize_shaft assigns to a zone's diameter
\* never reverse direction) has no run to be judged on: while a call of
\* optimize_shaft runs, no diameter of the session is assigned and the shaft
\* is not rebuilt.
RunAssignsNoDiameter ==
    [][Running => (session' = session /\ nodes' = nodes)]_vars

\* C30 (a return of success=False happens in the first pass, with nothing
\* modified) has no return to be judged on: no call of optimize_shaft
\* returns success=False; a call that made a pass ended with an exception.
NoFailureReturned ==
    IsOptimizeDone =>
        /\ ret.exception = "None" => ret.value.success
        /\ ret.iterations >= 1 => ret.exception # "None"

=============================================================================
